---- MODULE Spec2Model ----
(***************************************************************************)
(* Conversation persistence, message streaming and model lifecycle of the  *)
(* AI chat screen (useConversations, useMessages, useAiChat).              *)
(*                                                                         *)
(* Handlers are written as operators from a state record to a state record *)
(* so that a handler, the calls it makes and the React commit that follows *)
(* it (re-render, effect cleanups, effect bodies) compose into one step.   *)
(***************************************************************************)
EXTENDS Integers, Sequences, FiniteSets, TLC

\* ---------------------------------------------------------------- bounds
MaxConvs == 2
MaxStoreConvs == 3
MaxSends == 1
MaxDeltas == 2
MaxClock == 4
MaxMounts == 2
MaxTimers == 1
MaxSetups == 1
MaxSwapSetups == 2
MaxStored == 2
MaxRemovals == 1
MaxSwapRemovals == 2
MaxStreamSends == 2
MaxTitleCalls == 3
MaxTitleConvs == 4
DELTA_LEN == 60

\* ------------------------------------------------------ program constants
PREVIEW_LEN == 100
TITLE_LEN == 50

\* -------------------------------------------------------------- values
ModelId == "m1"
OtherModelId == "m2"
Models == {ModelId, OtherModelId}
null == "null"
ConvNames == <<"c1", "c2", "c3", "c4", "c5", "c6">>
None == <<>>
Some(x) == <<x>>

Min(a, b) == IF a < b THEN a ELSE b
Rep(ch, n) == [i \in 1..n |-> ch]
slice(text, n) == SubSeq(text, 1, Min(n, Len(text)))

RECURSIVE trimStart(_)
trimStart(t) == IF t # <<>> /\ Head(t) = " " THEN trimStart(Tail(t)) ELSE t
RECURSIVE trimEnd(_)
trimEnd(t) == IF t # <<>> /\ t[Len(t)] = " " THEN trimEnd(SubSeq(t, 1, Len(t) - 1)) ELSE t
trim(t) == trimEnd(trimStart(t))

reverse(seq) == [i \in 1..Len(seq) |-> seq[Len(seq) + 1 - i]]

\* text?.slice(0, n) || null
sliceOrNull(text, n) == IF slice(text, n) = <<>> THEN None ELSE Some(slice(text, n))

DEFAULT_TITLE == <<"C", "h", "a", "t", " ", "1">>

\* ---------------------------------------------------------- storage keys
getConversationListKey(m) == <<"conversations", m>>
getMessagesKey(c) == <<"messages", c>>
getLastConversationKey(m) == <<"last_conversation", m>>
legacyKey(m) == <<m>>

\* ------------------------------------------------- key/value primitive
has(st, k) == k \in DOMAIN st
save(st, k, v) == [x \in DOMAIN st \cup {k} |-> IF x = k THEN v ELSE st[x]]
remove(st, k) == [x \in DOMAIN st \ {k} |-> st[x]]
\* load<T[]>(k) || []
loadList(st, k) == IF has(st, k) THEN st[k] ELSE <<>>
\* load<string>(k), null when absent
loadId(st, k) == IF has(st, k) THEN st[k] ELSE null

\* ------------------------------------------------------------- messages
createMessage(id, text, isUser) ==
    [id |-> id, text |-> text, isUser |-> isUser, includeInContext |-> "undefined"]

\* { ...m, includeInContext: m?.includeInContext !== false }
withContextFlag(m) ==
    [m EXCEPT !.includeInContext = IF m.includeInContext = "false" THEN "false" ELSE "true"]

\* [...list].map(withContextFlag).reverse()
\* mutant: the buffer is written in its own order
toStored_Unreversed(buffer) == [i \in 1..Len(buffer) |-> withContextFlag(buffer[i])]

toStored(buffer) == reverse([i \in 1..Len(buffer) |-> withContextFlag(buffer[i])])
fromStored(record) == reverse([i \in 1..Len(record) |-> withContextFlag(record[i])])

\* ---------------------------------------------------------------- state
VARIABLES
    storage,                 \* the key/value store (survives unmounts)
    clock,                   \* the latest value Date.now() has returned
    instance,                \* number of the hook instance (0: never mounted)
    isMountedRef,            \* isMountedRef.current of the current instance
    conversations,           \* useConversations state
    conversationsRef,        \* conversationsRef.current
    activeConversationId,    \* useConversations state
    activeConversationIdRef, \* useAiChat's ref, synced by an effect
    messages,                \* useMessages messagesState
    msgRef,                  \* msgRef.current
    prevConversationIdRef,   \* conversationId the load effect last ran for
    conversationIdRef,       \* conversationIdRef.current
    isLoading,               \* streaming flag
    streams,                 \* in-flight handleSend calls suspended on textStream
    timers,                  \* pending setTimeout(saveMessages, 100)
    migrations,              \* migrateLegacyData calls suspended on promptAI
    nextConv,                \* generateId(): index of the next fresh id
    nextMsg,                 \* createMessage(): next fresh message id
    modelStatus,
    modelRef,                \* modelRef.current: "null" or the loaded model id
    selectedModelId,
    downloadProgress,
    isSetupInProgressRef,
    setups,                  \* setupModel calls suspended on a capability call
    checks,                  \* checkModelExists calls suspended on a capability call
    removal,                 \* removeModel calls suspended on a capability call
    titles,                  \* generateMissingTitles calls suspended on promptAI
    pastConversationsRef,    \* conversationsRef.current of unmounted instances whose
                             \* title calls are still in flight
    calls,                   \* capability calls issued so far, per kind
    last,                    \* the operation that produced this state
    migratedIds,             \* history: conversations for which migrateLegacyData returned true
    userDeleted,             \* history: conversations deleted by the user
    firstSend,               \* history: the send that created the only conversation,
                             \* while its stream and its flush are all that has run since
    createdIn                \* history: message id -> the conversation the message was
                             \* created in, by a send or by an earlier run

vars == <<storage, clock, instance, isMountedRef, conversations, conversationsRef,
          activeConversationId, activeConversationIdRef, messages, msgRef,
          prevConversationIdRef, conversationIdRef, isLoading, streams,
          timers, migrations, nextConv, nextMsg, modelStatus, modelRef,
          selectedModelId, downloadProgress, isSetupInProgressRef, setups, checks,
          removal, titles, pastConversationsRef, calls, last, migratedIds, userDeleted,
          firstSend, createdIn>>

Cur ==
    [storage |-> storage, clock |-> clock, instance |-> instance,
     isMountedRef |-> isMountedRef, conversations |-> conversations,
     conversationsRef |-> conversationsRef,
     activeConversationId |-> activeConversationId,
     activeConversationIdRef |-> activeConversationIdRef,
     messages |-> messages, msgRef |-> msgRef,
     prevConversationIdRef |-> prevConversationIdRef,
     conversationIdRef |-> conversationIdRef,
     isLoading |-> isLoading, streams |-> streams, timers |-> timers,
     migrations |-> migrations, nextConv |-> nextConv, nextMsg |-> nextMsg,
     modelStatus |-> modelStatus, modelRef |-> modelRef,
     selectedModelId |-> selectedModelId, downloadProgress |-> downloadProgress,
     isSetupInProgressRef |-> isSetupInProgressRef, setups |-> setups,
     checks |-> checks, removal |-> removal, titles |-> titles,
     pastConversationsRef |-> pastConversationsRef, calls |-> calls]

Become(s, op) ==
    /\ storage' = s.storage
    /\ clock' = s.clock
    /\ instance' = s.instance
    /\ isMountedRef' = s.isMountedRef
    /\ conversations' = s.conversations
    /\ conversationsRef' = s.conversationsRef
    /\ activeConversationId' = s.activeConversationId
    /\ activeConversationIdRef' = s.activeConversationIdRef
    /\ messages' = s.messages
    /\ msgRef' = s.msgRef
    /\ prevConversationIdRef' = s.prevConversationIdRef
    /\ conversationIdRef' = s.conversationIdRef
    /\ isLoading' = s.isLoading
    /\ streams' = s.streams
    /\ timers' = s.timers
    /\ migrations' = s.migrations
    /\ nextConv' = s.nextConv
    /\ nextMsg' = s.nextMsg
    /\ modelStatus' = s.modelStatus
    /\ modelRef' = s.modelRef
    /\ selectedModelId' = s.selectedModelId
    /\ downloadProgress' = s.downloadProgress
    /\ isSetupInProgressRef' = s.isSetupInProgressRef
    /\ setups' = s.setups
    /\ checks' = s.checks
    /\ removal' = s.removal
    /\ titles' = s.titles
    /\ pastConversationsRef' = s.pastConversationsRef
    /\ calls' = s.calls
    /\ last' = op
    /\ migratedIds' = IF op.op = "migrateLegacyData" THEN migratedIds \cup {op.arg}
                      ELSE migratedIds
    /\ userDeleted' = IF op.op = "deleteConversation" THEN userDeleted \cup {op.arg}
                      ELSE IF op.op = "removeModel"
                           THEN userDeleted \cup {conversationsRef[i].id : i \in 1..Len(conversationsRef)}
                           ELSE userDeleted
    /\ firstSend' =
          IF op.op = "handleSend" /\ op.was = null /\ conversations = <<>> /\ s.nextMsg # nextMsg
          THEN Some([conversationId |-> s.activeConversationId, userText |-> trim(op.arg),
                     userMessageId |-> nextMsg, aiMessageId |-> nextMsg + 1,
                     fullText |-> <<>>, done |-> FALSE])
          ELSE IF firstSend = None \/ op.op = "flushTimer" THEN firstSend
          ELSE IF op.op = "streamDelta" /\ op.arg[1] = firstSend[1].aiMessageId
          THEN Some([firstSend[1] EXCEPT !.fullText = @ \o op.arg[2]])
          ELSE IF op.op = "streamEnd" /\ op.arg = firstSend[1].aiMessageId
          THEN Some([firstSend[1] EXCEPT !.done = TRUE])
          ELSE None
    /\ createdIn' =
          IF op.op = "handleSend" /\ s.nextMsg # nextMsg
          THEN [m \in nextMsg..(s.nextMsg - 1) |-> s.activeConversationId] @@ createdIn
          ELSE createdIn

\* ------------------------------------------------------ useConversations
generateId(s) == ConvNames[s.nextConv]

RECURSIVE insertByUpdatedAt(_, _)
insertByUpdatedAt(sorted, c) ==
    IF sorted = <<>> THEN <<c>>
    ELSE IF Head(sorted).updatedAt >= c.updatedAt
         THEN <<Head(sorted)>> \o insertByUpdatedAt(Tail(sorted), c)
         ELSE <<c>> \o sorted

\* [...list].sort((a, b) => time(b.updatedAt) - time(a.updatedAt)), a stable sort
RECURSIVE sortByUpdatedAt(_)
sortByUpdatedAt(list) ==
    IF list = <<>> THEN <<>>
    ELSE insertByUpdatedAt(sortByUpdatedAt(SubSeq(list, 1, Len(list) - 1)), list[Len(list)])

ids(list) == {list[i].id : i \in 1..Len(list)}

\* mutant: without a usable pointer the first entry of the list is active
loadConversations_FirstOfList(s) ==
    LET list == loadList(s.storage, getConversationListKey(ModelId))
        lastId == loadId(s.storage, getLastConversationKey(ModelId))
    IN [s EXCEPT !.conversations = list,
                 !.conversationsRef = list,
                 !.activeConversationId =
                     IF lastId # null /\ lastId \in ids(list) THEN lastId
                     ELSE IF Len(list) > 0 THEN list[1].id
                     ELSE @]

loadConversations(s) ==
    LET list == loadList(s.storage, getConversationListKey(ModelId))
        lastId == loadId(s.storage, getLastConversationKey(ModelId))
    IN [s EXCEPT !.conversations = list,
                 !.conversationsRef = list,
                 !.activeConversationId =
                     IF lastId # null /\ lastId \in ids(list) THEN lastId
                     ELSE IF Len(list) > 0 THEN sortByUpdatedAt(list)[1].id
                     ELSE @]

\* mutant: the new entry goes to the end of the list
createConversation_Appends(s, initialTitle) ==
    LET conversationId == generateId(s)
        meta == [id |-> conversationId,
                 title |-> IF initialTitle = Some(<<>>) THEN None ELSE initialTitle,
                 createdAt |-> s.clock, updatedAt |-> s.clock,
                 lastMessagePreview |-> None]
        updatedList == s.conversationsRef \o <<meta>>
        st1 == save(s.storage, getConversationListKey(ModelId), updatedList)
        st2 == save(st1, getLastConversationKey(ModelId), conversationId)
        st3 == save(st2, getMessagesKey(conversationId), <<>>)
    IN [s EXCEPT !.storage = st3,
                 !.nextConv = @ + 1,
                 !.conversations = updatedList,
                 !.activeConversationId = conversationId]

\* title: initialTitle || null
createConversation(s, initialTitle) ==
    LET conversationId == generateId(s)
        meta == [id |-> conversationId,
                 title |-> IF initialTitle = Some(<<>>) THEN None ELSE initialTitle,
                 createdAt |-> s.clock, updatedAt |-> s.clock,
                 lastMessagePreview |-> None]
        updatedList == <<meta>> \o s.conversationsRef
        st1 == save(s.storage, getConversationListKey(ModelId), updatedList)
        st2 == save(st1, getLastConversationKey(ModelId), conversationId)
        st3 == save(st2, getMessagesKey(conversationId), <<>>)
    IN [s EXCEPT !.storage = st3,
                 !.nextConv = @ + 1,
                 !.conversations = updatedList,
                 !.activeConversationId = conversationId]

\* mutant: the selection is not persisted
selectConversation_NoSave(s, conversationId) ==
    [s EXCEPT !.activeConversationId = conversationId]

selectConversation(s, conversationId) ==
    [s EXCEPT !.activeConversationId = conversationId,
              !.storage = save(@, getLastConversationKey(ModelId), conversationId)]

\* mutant: the first survivor of the list becomes active
deleteConversation_FirstOfList(s, conversationId) ==
    LET st1 == remove(s.storage, getMessagesKey(conversationId))
        updatedList == SelectSeq(s.conversationsRef, LAMBDA c : c.id # conversationId)
        st2 == save(st1, getConversationListKey(ModelId), updatedList)
        wasActive == s.activeConversationId = conversationId
    IN [s EXCEPT !.conversations = updatedList,
                 !.storage =
                     IF ~wasActive THEN st2
                     ELSE IF Len(updatedList) > 0
                          THEN save(st2, getLastConversationKey(ModelId), updatedList[1].id)
                          ELSE remove(st2, getLastConversationKey(ModelId)),
                 !.activeConversationId =
                     IF ~wasActive THEN @
                     ELSE IF Len(updatedList) > 0 THEN updatedList[1].id ELSE null]

deleteConversation(s, conversationId) ==
    LET st1 == remove(s.storage, getMessagesKey(conversationId))
        updatedList == SelectSeq(s.conversationsRef, LAMBDA c : c.id # conversationId)
        st2 == save(st1, getConversationListKey(ModelId), updatedList)
        wasActive == s.activeConversationId = conversationId
        sorted == sortByUpdatedAt(updatedList)
    IN [s EXCEPT !.conversations = updatedList,
                 !.storage =
                     IF ~wasActive THEN st2
                     ELSE IF Len(updatedList) > 0
                          THEN save(st2, getLastConversationKey(ModelId), sorted[1].id)
                          ELSE remove(st2, getLastConversationKey(ModelId)),
                 !.activeConversationId =
                     IF ~wasActive THEN @
                     ELSE IF Len(updatedList) > 0 THEN sorted[1].id ELSE null]

\* { ...c, ...updates, updatedAt: updates.updatedAt || now }
mergeMeta(c, updates, now) ==
    [f \in DOMAIN c |->
        IF f = "updatedAt"
        THEN (IF "updatedAt" \in DOMAIN updates THEN updates.updatedAt ELSE now)
        ELSE IF f \in DOMAIN updates THEN updates[f] ELSE c[f]]

updateConversationMeta(s, conversationId, updates) ==
    LET updatedList ==
            [i \in 1..Len(s.conversationsRef) |->
                IF s.conversationsRef[i].id = conversationId
                THEN mergeMeta(s.conversationsRef[i], updates, s.clock)
                ELSE s.conversationsRef[i]]
    IN [s EXCEPT !.storage = save(@, getConversationListKey(ModelId), updatedList),
                 !.conversationsRef = updatedList,
                 !.conversations = updatedList]

RECURSIVE removeMessageKeys(_, _)
removeMessageKeys(st, list) ==
    IF list = <<>> THEN st
    ELSE removeMessageKeys(remove(st, getMessagesKey(Head(list).id)), Tail(list))

deleteAllConversations(s) ==
    LET st1 == removeMessageKeys(s.storage, s.conversationsRef)
        st2 == remove(st1, getConversationListKey(ModelId))
        st3 == remove(st2, getLastConversationKey(ModelId))
    IN [s EXCEPT !.storage = st3,
                 !.conversationsRef = <<>>,
                 !.conversations = <<>>,
                 !.activeConversationId = null]

\* ------------------------------------------------------------ useMessages
\* setMessages(updater): the state and msgRef.current move together
setMessages(s, next) == [s EXCEPT !.messages = next, !.msgRef = next]

\* useAiChat.handleMessagesChange, the onMessagesChange callback
handleMessagesChange(s, msgs) ==
    LET currentConvId == s.activeConversationIdRef
    IN IF currentConvId = null \/ Len(msgs) = 0 THEN s
       ELSE updateConversationMeta(s, currentConvId,
                [lastMessagePreview |-> sliceOrNull(msgs[1].text, PREVIEW_LEN),
                 updatedAt |-> s.clock])

saveMessages(s) ==
    LET currentConvId == s.conversationIdRef
    IN IF currentConvId = null \/ Len(s.msgRef) = 0 THEN s
       ELSE handleMessagesChange(
                [s EXCEPT !.storage = save(@, getMessagesKey(currentConvId), toStored(s.msgRef))],
                s.msgRef)

\* mutant: the cleanup does not persist the buffer
messagesEffectCleanup_NoSave(s, conversationId) ==
    [s EXCEPT !.msgRef = <<>>, !.isMountedRef = FALSE]

\* cleanup of the load effect; conversationId is the id the effect ran for
messagesEffectCleanup(s, conversationId) ==
    LET flushed ==
            IF conversationId # null /\ Len(s.msgRef) > 0
            THEN save(s.storage, getMessagesKey(conversationId), toStored(s.msgRef))
            ELSE s.storage
    IN [s EXCEPT !.storage = flushed, !.msgRef = <<>>, !.isMountedRef = FALSE]

\* mutant: the effect starts every conversation with an empty list
messagesEffect_NoLoad(s, conversationId) ==
    setMessages([s EXCEPT !.isMountedRef = TRUE, !.prevConversationIdRef = conversationId], <<>>)

\* body of the load effect for the rendered conversationId
messagesEffect(s, conversationId) ==
    LET prev == s.prevConversationIdRef
        st1 == IF prev # null /\ prev # conversationId /\ Len(s.msgRef) > 0
               THEN save(s.storage, getMessagesKey(prev), toStored(s.msgRef))
               ELSE s.storage
        listMsg == IF conversationId # null
                   THEN loadList(st1, getMessagesKey(conversationId)) ELSE <<>>
        s1 == [s EXCEPT !.storage = st1, !.isMountedRef = TRUE,
                        !.prevConversationIdRef = conversationId]
    IN setMessages(s1, IF Len(listMsg) > 0 THEN fromStored(listMsg) ELSE <<>>)

\* mutant: the cleanup of the load effect saves under the conversation
\* that is rendered next
Commit_SavesUnderNext(s) ==
    LET s1 == [s EXCEPT !.conversationsRef = s.conversations,
                        !.activeConversationIdRef = s.activeConversationId,
                        !.conversationIdRef = s.activeConversationId]
    IN IF s.activeConversationId # s.prevConversationIdRef
       THEN messagesEffect(messagesEffectCleanup(s1, s.activeConversationId),
                           s.activeConversationId)
       ELSE s1

\* The commit that follows a handler on a mounted instance: the ref-sync
\* effects run, and the load effect re-runs (cleanup, then body) when the
\* rendered conversationId differs from the one it last ran for.
Commit(s) ==
    LET s1 == [s EXCEPT !.conversationsRef = s.conversations,
                        !.activeConversationIdRef = s.activeConversationId,
                        !.conversationIdRef = s.activeConversationId]
    IN IF s.activeConversationId # s.prevConversationIdRef
       THEN messagesEffect(messagesEffectCleanup(s1, s.prevConversationIdRef),
                           s.activeConversationId)
       ELSE s1

Rendered(s) == IF s.isMountedRef THEN Commit(s) ELSE s

\* ------------------------------------------------- stream controller
\* The text is kept as one token: only its identity matters.
ERROR_MESSAGE == <<"Sorry, an error occurred. Please try again.">>

\* a task acts on the hook instance it was started by, while that is mounted
alive(s, task) == task.inst = s.instance /\ s.isMountedRef

\* mutant: the text of every message of the model is replaced
replaceText_EveryReply(msgs, id, text) ==
    [i \in 1..Len(msgs) |-> IF ~msgs[i].isUser THEN [msgs[i] EXCEPT !.text = text] ELSE msgs[i]]

replaceText(msgs, id, text) ==
    [i \in 1..Len(msgs) |-> IF msgs[i].id = id THEN [msgs[i] EXCEPT !.text = text] ELSE msgs[i]]

\* mutant: a send is accepted while a stream is in flight
sendRejected_WhileLoading(s, text) ==
    trim(text) = <<>> \/ s.modelStatus # "ready" \/ s.modelRef = null

sendRejected(s, text) ==
    trim(text) = <<>> \/ s.isLoading \/ s.modelStatus # "ready" \/ s.modelRef = null

\* handleSend of the stream controller, up to its first suspension on textStream
streamHandleSend(s, text) ==
    IF sendRejected(s, text) THEN s
    ELSE LET userMessage == createMessage(s.nextMsg, trim(text), TRUE)
             aiMessage == createMessage(s.nextMsg + 1, <<>>, FALSE)
             stream == [inst |-> s.instance, aiMessageId |-> aiMessage.id,
                        fullText |-> <<>>, started |-> FALSE, aborted |-> FALSE,
                        controller |-> TRUE, deltas |-> 0]
             others == {IF x.inst = s.instance THEN [x EXCEPT !.controller = FALSE] ELSE x :
                           x \in s.streams}
         IN [setMessages(s, s.messages \o <<userMessage, aiMessage>>)
                EXCEPT !.isLoading = TRUE,
                       !.nextMsg = @ + 2,
                       !.streams = others \cup {stream}]

\* finally { streamAbortControllerRef.current = null }
streamFinally(s, task) ==
    [s EXCEPT !.streams = {IF x.inst = task.inst THEN [x EXCEPT !.controller = FALSE] ELSE x :
                              x \in s.streams \ {task}}]

\* one iteration of the for-await loop
streamDelta(s, task, delta) ==
    LET fullText == IF ~task.started THEN delta ELSE task.fullText \o delta
        next == [task EXCEPT !.fullText = fullText, !.started = TRUE, !.deltas = @ + 1]
        s1 == [s EXCEPT !.streams = (@ \ {task}) \cup {next}]
    IN IF alive(s, task)
       THEN setMessages(s1, replaceText(s.messages, task.aiMessageId, fullText))
       ELSE s1

\* mutant: the end of the stream leaves the flag set
streamEnd_KeepsLoading(s, task) == streamFinally(s, task)

\* textStream is exhausted
streamEnd(s, task) ==
    streamFinally(IF alive(s, task) /\ ~task.aborted
                  THEN [s EXCEPT !.isLoading = FALSE] ELSE s, task)

\* mutant: the catch does not return early
streamFail_Unguarded(s, task) ==
    streamFinally([setMessages(s, replaceText(s.messages, task.aiMessageId, ERROR_MESSAGE))
                      EXCEPT !.isLoading = FALSE], task)

\* textStream rejects
streamFail(s, task) ==
    streamFinally(IF ~alive(s, task) \/ task.aborted THEN s
                  ELSE [setMessages(s, replaceText(s.messages, task.aiMessageId, ERROR_MESSAGE))
                           EXCEPT !.isLoading = FALSE], task)

\* streamAbortControllerRef.current.abort(); streamAbortControllerRef.current = null
abortStream(s) ==
    [s EXCEPT !.streams =
        {[x EXCEPT !.aborted = @ \/ x.controller, !.controller = FALSE] : x \in s.streams}]

\* ------------------------------------------------------------ migration
\* mutant: the legacy record is removed before the title is awaited
migrateLegacyDataBegin_RemoveFirst(s) ==
    LET legacyMessages == loadList(s.storage, legacyKey(ModelId))
        existingList == loadList(s.storage, getConversationListKey(ModelId))
    IN IF Len(legacyMessages) = 0 \/ Len(existingList) > 0
       THEN [suspended |-> FALSE, s |-> s]
       ELSE [suspended |-> TRUE,
             s |-> [s EXCEPT !.nextConv = @ + 1,
                             !.storage = remove(@, legacyKey(ModelId)),
                             !.migrations = @ \cup
                                 {[inst |-> s.instance, legacyMessages |-> legacyMessages,
                                   conversationId |-> generateId(s), now |-> s.clock]}]]

\* migrateLegacyData up to its suspension on promptAI; it has returned false
\* when it is not suspended
migrateLegacyDataBegin(s) ==
    LET legacyMessages == loadList(s.storage, legacyKey(ModelId))
        existingList == loadList(s.storage, getConversationListKey(ModelId))
    IN IF Len(legacyMessages) = 0 \/ Len(existingList) > 0
       THEN [suspended |-> FALSE, s |-> s]
       ELSE [suspended |-> TRUE,
             s |-> [s EXCEPT !.nextConv = @ + 1,
                             !.migrations = @ \cup
                                 {[inst |-> s.instance, legacyMessages |-> legacyMessages,
                                   conversationId |-> generateId(s), now |-> s.clock]}]]

\* mutant: without a generated title the conversation has none
titleOf_NoDefault(outcome) ==
    IF outcome # None /\ outcome[1] # <<>> THEN slice(outcome[1], TITLE_LEN) ELSE <<>>

\* outcome: None when promptAI rejects, Some(text) when it resolves
titleOf(outcome) ==
    IF outcome # None /\ outcome[1] # <<>> THEN slice(outcome[1], TITLE_LEN) ELSE DEFAULT_TITLE

\* mutant: the legacy record is kept
migrateLegacyDataFinish_KeepLegacy(s, task, outcome) ==
    LET lastMessage == task.legacyMessages[Len(task.legacyMessages)]
        meta == [id |-> task.conversationId, title |-> Some(titleOf(outcome)),
                 createdAt |-> task.now, updatedAt |-> task.now,
                 lastMessagePreview |-> sliceOrNull(lastMessage.text, PREVIEW_LEN)]
        st1 == save(s.storage, getMessagesKey(task.conversationId), task.legacyMessages)
        st2 == save(st1, getConversationListKey(ModelId), <<meta>>)
        st3 == save(st2, getLastConversationKey(ModelId), task.conversationId)
        s1 == [s EXCEPT !.storage = st3, !.migrations = @ \ {task}]
    IN IF alive(s, task)
       THEN [s1 EXCEPT !.conversationsRef = <<meta>>,
                       !.conversations = <<meta>>,
                       !.activeConversationId = task.conversationId]
       ELSE s1

\* migrateLegacyData from the resumption after promptAI to return true
migrateLegacyDataFinish(s, task, outcome) ==
    LET lastMessage == task.legacyMessages[Len(task.legacyMessages)]
        meta == [id |-> task.conversationId, title |-> Some(titleOf(outcome)),
                 createdAt |-> task.now, updatedAt |-> task.now,
                 lastMessagePreview |-> sliceOrNull(lastMessage.text, PREVIEW_LEN)]
        st1 == save(s.storage, getMessagesKey(task.conversationId), task.legacyMessages)
        st2 == save(st1, getConversationListKey(ModelId), <<meta>>)
        st3 == save(st2, getLastConversationKey(ModelId), task.conversationId)
        st4 == remove(st3, legacyKey(ModelId))
        s1 == [s EXCEPT !.storage = st4, !.migrations = @ \ {task}]
    IN IF alive(s, task)
       THEN [s1 EXCEPT !.conversationsRef = <<meta>>,
                       !.conversations = <<meta>>,
                       !.activeConversationId = task.conversationId]
       ELSE s1

\* ------------------------------------------------------ model lifecycle
STORAGE_KEY_SELECTED_MODEL == <<"ai_selected_model_id">>

\* one more capability call of this kind has been issued
called(s, kind) == [s EXCEPT !.calls[kind] = @ + 1]

\* a ref write reaches the current instance's ref only from its own tasks
owns(s, task) == task.inst = s.instance /\ s.isMountedRef

moved(s, task, pc) == [s EXCEPT !.setups = (@ \ {task}) \cup {[task EXCEPT !.pc = pc]}]

\* mutant: the call ends without clearing the flag
setupFinally_KeepsFlag(s, task) == [s EXCEPT !.setups = @ \ {task}]

\* finally { isSetupInProgressRef.current = false }
setupFinally(s, task) ==
    [s EXCEPT !.setups = @ \ {task},
              !.isSetupInProgressRef = IF owns(s, task) THEN FALSE ELSE @]

\* mutant: the catch leaves status and progress as they are
setupCatch_NoReset(s, task) == setupFinally(s, task)

\* catch (error) of setupModel
setupCatch(s, task) ==
    setupFinally(IF alive(s, task)
                 THEN [s EXCEPT !.modelStatus = "not_setup", !.downloadProgress = 0]
                 ELSE s, task)

\* setupModel from "Check if still mounted after async operations" to the
\* suspension on model.download
setupStartDownload(s, task) ==
    IF ~alive(s, task) THEN setupFinally(s, task)
    ELSE called(moved([s EXCEPT !.modelStatus = "downloading", !.downloadProgress = 0],
                      task, "download"), "download")

\* the end of the swap branch, reached with or without a removal error
setupAfterSwap(s, task) ==
    setupStartDownload(IF alive(s, task)
                       THEN [s EXCEPT !.modelStatus = "not_setup", !.downloadProgress = 0]
                       ELSE s, task)

\* mutant: the reentrancy flag is not consulted
setupIgnored_NoFlag(s, modelId) ==
    modelId = s.selectedModelId /\ s.modelStatus = "ready"

setupIgnored(s, modelId) ==
    \/ s.isSetupInProgressRef
    \/ (modelId = s.selectedModelId /\ s.modelStatus = "ready")

\* setupModel up to its first suspension
setupModel(s, modelId) ==
    IF setupIgnored(s, modelId) THEN s
    ELSE LET task == [inst |-> s.instance, modelId |-> modelId,
                      oldModelId |-> s.selectedModelId, pc |-> "start"]
             s1 == [s EXCEPT !.isSetupInProgressRef = TRUE, !.setups = @ \cup {task}]
         IN IF modelId # s.selectedModelId /\ s.selectedModelId # null
            THEN IF s.modelRef # null
                 THEN called(moved(s1, task, "unload"), "unload")
                 ELSE called(moved(s1, task, "removeOld"), "remove")
            ELSE setupStartDownload(s1, task)

\* modelRef.current.unload() settles
setupUnloadDone(s, task, ok) ==
    IF ok
    THEN called(moved([s EXCEPT !.modelRef = IF owns(s, task) THEN null ELSE @],
                      task, "removeOld"), "remove")
    ELSE setupAfterSwap(s, task)

\* oldModel.remove() settles
setupRemoveOldDone(s, task, ok) == setupAfterSwap(s, task)

\* the progress callback of model.download
setupDownloadProgress(s, task, percentage) ==
    IF alive(s, task) THEN [s EXCEPT !.downloadProgress = percentage] ELSE s

\* model.download() settles
setupDownloadDone(s, task, ok) ==
    IF ~ok THEN setupCatch(s, task)
    ELSE IF ~alive(s, task) THEN setupFinally(s, task)
    ELSE called(moved([s EXCEPT !.downloadProgress = 100, !.modelStatus = "preparing"],
                      task, "prepare"), "prepare")

\* model.prepare() settles
setupPrepareDone(s, task, ok) ==
    IF ~ok THEN setupCatch(s, task)
    ELSE setupFinally(
            IF alive(s, task)
            THEN [s EXCEPT !.modelRef = task.modelId,
                           !.selectedModelId = task.modelId,
                           !.modelStatus = "ready",
                           !.storage = save(@, STORAGE_KEY_SELECTED_MODEL, task.modelId)]
            ELSE s, task)

\* checkModelExists up to its suspension on model.isDownloaded
checkModelExists(s, modelId) ==
    called([s EXCEPT !.checks = @ \cup {[inst |-> s.instance, modelId |-> modelId,
                                         pc |-> "isDownloaded"]}], "isDownloaded")

\* model.isDownloaded() settles: "yes", "no" or "error"
checkIsDownloadedDone(s, task, outcome) ==
    IF outcome # "yes" THEN [s EXCEPT !.checks = @ \ {task}]
    ELSE called([s EXCEPT !.checks = (@ \ {task}) \cup {[task EXCEPT !.pc = "prepare"]},
                          !.modelStatus = IF alive(s, task) THEN "preparing" ELSE @],
                "prepare")

\* model.prepare() of checkModelExists settles
checkPrepareDone(s, task, ok) ==
    LET s1 == [s EXCEPT !.checks = @ \ {task}]
    IN IF ~ok THEN s1
       ELSE LET s2 == [s1 EXCEPT !.storage = save(@, STORAGE_KEY_SELECTED_MODEL, task.modelId)]
            IN IF alive(s, task)
               THEN [s2 EXCEPT !.modelRef = task.modelId,
                               !.selectedModelId = task.modelId,
                               !.modelStatus = "ready"]
               ELSE s2

\* removeModel after the unload attempt
removeModelAfterUnload(s, task) ==
    IF task.selectedModelId = null THEN [s EXCEPT !.removal = @ \ {task}]
    ELSE called([s EXCEPT !.removal = (@ \ {task}) \cup {[task EXCEPT !.pc = "remove"]}],
                "remove")

\* removeModel up to its first suspension
removeModel(s) ==
    LET task == [inst |-> s.instance, selectedModelId |-> s.selectedModelId, pc |-> "unload"]
        s1 == [s EXCEPT !.removal = @ \cup {task}]
    IN IF s.modelRef # null THEN called(s1, "unload") ELSE removeModelAfterUnload(s1, task)

\* modelRef.current.unload() settles; its error is swallowed
removeModelUnloadDone(s, task, ok) ==
    removeModelAfterUnload([s EXCEPT !.modelRef = IF owns(s, task) THEN null ELSE @], task)

\* model.remove() settles
removeModelRemoveDone(s, task, ok) ==
    LET s1 == [s EXCEPT !.removal = @ \ {task}]
    IN IF ~ok THEN s1
       ELSE LET s2 == [s1 EXCEPT !.storage = remove(@, STORAGE_KEY_SELECTED_MODEL)]
            IN IF alive(s, task)
               THEN [s2 EXCEPT !.modelStatus = "not_setup", !.downloadProgress = 0,
                               !.selectedModelId = null]
               ELSE s2

\* removeModelById up to its first suspension
removeModelById(s, modelId) ==
    IF modelId = s.selectedModelId /\ s.modelStatus = "ready" THEN removeModel(s)
    ELSE called([s EXCEPT !.removal = @ \cup {[inst |-> s.instance, modelId |-> modelId,
                                               selectedModelId |-> s.selectedModelId,
                                               pc |-> "removeById"]}], "remove")

\* model.remove() of removeModelById settles
removeModelByIdDone(s, task, ok) ==
    LET s1 == [s EXCEPT !.removal = @ \ {task}]
    IN IF ~ok \/ task.modelId # task.selectedModelId THEN s1
       ELSE LET s2 == [s1 EXCEPT !.storage = remove(@, STORAGE_KEY_SELECTED_MODEL)]
            IN IF alive(s, task)
               THEN [s2 EXCEPT !.selectedModelId = null, !.modelStatus = "not_setup"]
               ELSE s2

\* -------------------------------------------------------------- useAiChat
\* handleSend of the chat session, for the text in the input field
sendIgnored(s, inputText) == trim(inputText) = <<>> \/ s.modelStatus # "ready"

handleSend(s, inputText) ==
    LET text == trim(inputText)
    IN IF sendIgnored(s, inputText) THEN s
       ELSE LET s1 == IF s.activeConversationId = null THEN createConversation(s, None) ELSE s
                s2 == streamHandleSend(s1, text)
            IN [s2 EXCEPT !.timers = Append(@, s.instance)]

\* the timer set by handleSend fires
flushTimer(s, i) ==
    LET s1 == [s EXCEPT !.timers = SubSeq(@, 1, i - 1) \o SubSeq(@, i + 1, Len(@))]
    IN IF s.timers[i] = s.instance /\ s.isMountedRef THEN saveMessages(s1) ELSE s1

handleNewConversation(s) == createConversation(saveMessages(s), None)

\* removeModel of the chat session, up to the first suspension of the
\* lifecycle's removeModel
sessionRemoveModel(s) == removeModel(setMessages(deleteAllConversations(s), <<>>))

\* ------------------------------------------------------ title generation
MIN_MESSAGES_FOR_TITLE == 3

\* isGeneratingTitleRef.current of an instance: an id is added before promptAI
\* is awaited and deleted in the finally, so the set holds the ids of the
\* instance's calls in flight
isGeneratingTitleRef(s, inst) == {x.conversationId : x \in {y \in s.titles : y.inst = inst}}

\* conversations.filter((c) => !c.title && !isGeneratingTitleRef.current.has(c.id))
RECURSIVE conversationsWithoutTitle(_, _)
conversationsWithoutTitle(list, generating) ==
    IF list = <<>> THEN <<>>
    ELSE LET c == Head(list)
             more == conversationsWithoutTitle(Tail(list), generating)
         IN IF (c.title = None \/ c.title = Some(<<>>)) /\ c.id \notin generating
            THEN <<c.id>> \o more ELSE more

\* the for loop of generateMissingTitles over the ids that are left, up to
\* its next suspension on promptAI: generateConversationTitle returns at
\* once for an id that is generating
RECURSIVE titlesLoop(_, _, _)
titlesLoop(s, inst, list) ==
    IF list = <<>> THEN s
    ELSE LET storedMessages == loadList(s.storage, getMessagesKey(Head(list)))
         IN IF /\ Len(storedMessages) >= MIN_MESSAGES_FOR_TITLE
               /\ Head(list) \notin isGeneratingTitleRef(s, inst)
            THEN called([s EXCEPT !.titles = @ \cup {[inst |-> inst,
                                                       conversationId |-> Head(list),
                                                       rest |-> Tail(list)]}], "promptAI")
            ELSE titlesLoop(s, inst, Tail(list))

\* generateMissingTitles up to its first suspension
generateMissingTitles(s) ==
    titlesLoop(s, s.instance,
               conversationsWithoutTitle(s.conversationsRef,
                                         isGeneratingTitleRef(s, s.instance)))

\* updateConversationMetaRef.current(conversationId, { title }): the
\* updateConversationMeta of the instance that made the call, which maps
\* over that instance's conversationsRef and saves the result, mounted or not
titleUpdate(s, task, title) ==
    IF alive(s, task)
    THEN updateConversationMeta(s, task.conversationId, [title |-> Some(title)])
    ELSE LET ref == s.pastConversationsRef[task.inst]
             updatedList ==
                 [i \in 1..Len(ref) |->
                     IF ref[i].id = task.conversationId
                     THEN mergeMeta(ref[i], [title |-> Some(title)], s.clock)
                     ELSE ref[i]]
         IN [s EXCEPT !.storage = save(@, getConversationListKey(ModelId), updatedList),
                      !.pastConversationsRef[task.inst] = updatedList]

\* the refs of an unmounted instance are kept while its calls are in flight
keepPastRefs(s) ==
    [s EXCEPT !.pastConversationsRef =
        [i \in {j \in DOMAIN @ : \E x \in s.titles : x.inst = j} |-> @[i]]]

\* mutant: the finally block leaves the id in the in-flight set
generateTitleDone_KeepsGenerating(s, task, outcome) ==
    LET s1 == IF outcome # None /\ outcome[1] # <<>>
              THEN titleUpdate(s, task, slice(trim(outcome[1]), TITLE_LEN))
              ELSE s
    IN keepPastRefs(titlesLoop(s1, task.inst, task.rest))

\* promptAI settles in generateConversationTitle: the title is written, the
\* id leaves the in-flight set, and the loop of generateMissingTitles goes on
generateTitleDone(s, task, outcome) ==
    LET s1 == IF outcome # None /\ outcome[1] # <<>>
              THEN titleUpdate(s, task, slice(trim(outcome[1]), TITLE_LEN))
              ELSE s
        s2 == [s1 EXCEPT !.titles = @ \ {task}]
    IN keepPastRefs(titlesLoop(s2, task.inst, task.rest))

\* ------------------------------------------------------ mount and unmount
\* The state and the refs of an instance cease to exist with it: a task that
\* outlives its instance (alive, owns) neither reads nor writes them, and the
\* next instance starts from the initial values of useState and useRef.
discardInstance(s) ==
    [s EXCEPT !.conversations = <<>>,
              !.conversationsRef = <<>>,
              !.activeConversationId = null,
              !.activeConversationIdRef = null,
              !.messages = <<>>,
              !.msgRef = <<>>,
              !.prevConversationIdRef = null,
              !.conversationIdRef = null,
              !.isLoading = FALSE,
              !.modelStatus = "not_setup",
              !.modelRef = null,
              !.selectedModelId = null,
              !.downloadProgress = 0,
              !.isSetupInProgressRef = FALSE]

\* A new hook instance: state and refs start from their initial values, the
\* init effect runs migrateLegacyData and, when that returns false at once,
\* loadConversations; the load effect runs for the first time; the lifecycle
\* checks the saved model.
mount(s) ==
    LET fresh == [discardInstance(s) EXCEPT !.instance = @ + 1, !.isMountedRef = TRUE]
        begun == migrateLegacyDataBegin(fresh)
        s1 == messagesEffect(begun.s, null)
        s2 == IF begun.suspended THEN s1 ELSE loadConversations(s1)
    IN Commit(IF has(s2.storage, STORAGE_KEY_SELECTED_MODEL)
              THEN checkModelExists(s2, s2.storage[STORAGE_KEY_SELECTED_MODEL])
              ELSE s2)

\* The cleanups of an unmount, in the order of the hooks: useConversations,
\* useMessages, the session's own cleanup, the lifecycle's cleanup.
unmount(s) ==
    LET s1 == messagesEffectCleanup([s EXCEPT !.isMountedRef = FALSE], s.prevConversationIdRef)
        s2 == saveMessages(abortStream(s1))
        s3 == IF \E x \in s2.titles : x.inst = s2.instance
              THEN [s2 EXCEPT !.pastConversationsRef = (s2.instance :> s2.conversationsRef) @@ @]
              ELSE s2
    IN discardInstance(IF s3.modelRef # null
                       THEN called([s3 EXCEPT !.modelRef = null], "unload")
                       ELSE s3)

\* ------------------------------------------------------------ inputs
LegacyMessages ==
    << [id |-> 901, text |-> <<"o", "l", "d">>, isUser |-> TRUE, includeInContext |-> "undefined"],
       [id |-> 902, text |-> Rep("x", PREVIEW_LEN + 1), isUser |-> FALSE,
        includeInContext |-> "undefined"] >>

EmptyStorage == [k \in {} |-> <<>>]
InitialStorages == {EmptyStorage, save(EmptyStorage, legacyKey(ModelId), LegacyMessages)}
Inputs == {<<" ">>, <<" ", "h", "i">>}
Deltas == {Rep("b", DELTA_LEN)}
TitleOutcomes == {None, Some(<<>>), Some(Rep("t", TITLE_LEN + 1))}
\* with a second text, so that one title can be told from another
SummaryResults == TitleOutcomes \cup {Some(<<"u", " ">>)}
Percentages == {50}
CheckOutcomes == {"yes", "no", "error"}
StoredTexts == {<<"a">>, <<"b", "c">>}
StoredMessages ==
    [id : {0}, text : StoredTexts, isUser : BOOLEAN, includeInContext : {"true", "false", "undefined"}]
\* the message records of length 1..MaxStored, with ids 901, 902, ... in order
StoredRecords ==
    UNION {{[i \in 1..n |-> [f[i] EXCEPT !.id = 900 + i]] : f \in [1..n -> StoredMessages]}
           : n \in 1..MaxStored}
NoCalls ==
    [unload |-> 0, remove |-> 0, download |-> 0, prepare |-> 0, isDownloaded |-> 0, promptAI |-> 0]

\* an operation, its argument and the active conversation it was called with
\* the argument of a step in which a capability call of a task settles
Settled(task, outcome) == [inst |-> task.inst, task |-> task, outcome |-> outcome]

Op(name, arg) == [op |-> name, arg |-> arg, was |-> activeConversationId]

\* A handler that reads the date runs at a later millisecond than the handler
\* that read it before; the reads within one handler return the same value.
\* Run(before, after, op): the handler took the state from before to after;
\* the clock has advanced when a handler came out differently for the later
\* date, that is, when it has read the date.
Later(s) == [s EXCEPT !.clock = @ + 1]

Run(now, later, op) ==
    IF later = Later(now) THEN Become(now, op)
    ELSE clock < MaxClock /\ Become(later, op)

\* ------------------------------------------------------------- actions
\* Nothing is mounted; storage is what earlier runs have left
\* the conversation of every message of the message records of st
storedIn(st) ==
    LET keys == {k \in DOMAIN st : k[1] = "messages"}
        idsOf(k) == {st[k][i].id : i \in 1..Len(st[k])}
    IN [m \in UNION {idsOf(k) : k \in keys} |->
           (CHOOSE k \in keys : m \in idsOf(k))[2]]

InitWith(st, conv) ==
    /\ storage = st
    /\ clock = 0
    /\ instance = 0
    /\ isMountedRef = FALSE
    /\ conversations = <<>>
    /\ conversationsRef = <<>>
    /\ activeConversationId = null
    /\ activeConversationIdRef = null
    /\ messages = <<>>
    /\ msgRef = <<>>
    /\ prevConversationIdRef = null
    /\ conversationIdRef = null
    /\ isLoading = FALSE
    /\ streams = {}
    /\ timers = <<>>
    /\ migrations = {}
    /\ nextConv = conv
    /\ nextMsg = 1
    /\ modelStatus = "not_setup"
    /\ modelRef = null
    /\ selectedModelId = null
    /\ downloadProgress = 0
    /\ isSetupInProgressRef = FALSE
    /\ setups = {}
    /\ checks = {}
    /\ removal = {}
    /\ titles = {}
    /\ pastConversationsRef = <<>>
    /\ calls = NoCalls
    /\ last = [op |-> "init", arg |-> null, was |-> null]
    /\ migratedIds = {}
    /\ userDeleted = {}
    /\ firstSend = None
    /\ createdIn = storedIn(st)

Init == \E st \in InitialStorages : InitWith(st, 1)

Mount(maxConvs) ==
    /\ ~isMountedRef
    /\ instance < MaxMounts
    /\ nextConv <= maxConvs
    /\ Run(mount(Cur), mount(Later(Cur)), Op("mount", null))

Unmount ==
    /\ isMountedRef
    /\ Run(unmount(Cur), unmount(Later(Cur)), Op("unmount", msgRef))

\* the user sends the text of the input field
HandleSend(inputText, maxSends) ==
    /\ isMountedRef
    /\ activeConversationId # null \/ nextConv <= MaxConvs
    /\ nextMsg < 2 * maxSends \/ isLoading \/ modelRef = null \/ sendIgnored(Cur, inputText)
    /\ Len(timers) < MaxTimers
    /\ Run(Rendered(handleSend(Cur, inputText)), Rendered(handleSend(Later(Cur), inputText)),
           Op("handleSend", inputText))

StreamDelta(task, delta) ==
    /\ task.deltas < MaxDeltas
    /\ Become(Rendered(streamDelta(Cur, task, delta)), Op("streamDelta", <<task.aiMessageId, delta>>))

StreamEnd(task) == Become(Rendered(streamEnd(Cur, task)), Op("streamEnd", task.aiMessageId))

StreamFail(task) == Become(Rendered(streamFail(Cur, task)), Op("streamFail", task.aiMessageId))

FlushTimer(i) == Run(Rendered(flushTimer(Cur, i)), Rendered(flushTimer(Later(Cur), i)), Op("flushTimer", null))

MigrateFinish(task, outcome) ==
    Become(Rendered(migrateLegacyDataFinish(Cur, task, outcome)),
           Op("migrateLegacyData", task.conversationId))

NewConversation(maxConvs) ==
    /\ isMountedRef
    /\ nextConv <= maxConvs
    /\ Run(Rendered(handleNewConversation(Cur)), Rendered(handleNewConversation(Later(Cur))),
           Op("createConversation", msgRef))

SelectConversation(c) ==
    /\ isMountedRef
    /\ c # activeConversationId
    /\ Become(Rendered(selectConversation(Cur, c)), Op("selectConversation", c))

DeleteConversation(c) ==
    /\ isMountedRef
    /\ Become(Rendered(deleteConversation(Cur, c)), Op("deleteConversation", c))

RemoveModel(maxRemovals) ==
    /\ isMountedRef
    /\ removal = {}
    /\ calls.remove < maxRemovals
    /\ Become(Rendered(sessionRemoveModel(Cur)), Op("removeModel", null))

RemoveModelUnloadDone(task, ok) ==
    /\ task.pc = "unload"
    /\ Become(Rendered(removeModelUnloadDone(Cur, task, ok)), Op("removeModelUnload", Settled(task, ok)))

RemoveModelRemoveDone(task, ok) ==
    /\ task.pc = "remove"
    /\ Become(Rendered(removeModelRemoveDone(Cur, task, ok)), Op("removeModelDone", Settled(task, ok)))

RemoveModelById(modelId, maxRemovals) ==
    /\ isMountedRef
    /\ removal = {}
    /\ calls.remove < maxRemovals
    /\ Become(Rendered(removeModelById(Cur, modelId)), Op("removeModelById", modelId))

RemoveModelByIdDone(task, ok) ==
    /\ task.pc = "removeById"
    /\ Become(Rendered(removeModelByIdDone(Cur, task, ok)), Op("removeModelByIdDone", Settled(task, ok)))

CheckIsDownloadedDone(task, outcome) ==
    /\ task.pc = "isDownloaded"
    /\ Become(Rendered(checkIsDownloadedDone(Cur, task, outcome)),
              Op("checkIsDownloaded", Settled(task, outcome)))

CheckPrepareDone(task, ok) ==
    /\ task.pc = "prepare"
    /\ Become(Rendered(checkPrepareDone(Cur, task, ok)), Op("checkPrepare", Settled(task, ok)))

GenerateMissingTitles(maxCalls) ==
    /\ isMountedRef
    /\ calls.promptAI < maxCalls
    /\ Become(Rendered(generateMissingTitles(Cur)), Op("generateMissingTitles", null))

GenerateTitleDone(task, outcome) ==
    Run(Rendered(generateTitleDone(Cur, task, outcome)),
        Rendered(generateTitleDone(Later(Cur), task, outcome)),
        Op("generateTitle", Settled(task, outcome)))

SetupModel(modelId, maxSetups) ==
    /\ isMountedRef
    /\ calls.download < maxSetups
    /\ Become(Rendered(setupModel(Cur, modelId)), Op("setupModel", modelId))

SetupUnloadDone(task, ok) ==
    /\ task.pc = "unload"
    /\ Become(Rendered(setupUnloadDone(Cur, task, ok)), Op("setupUnload", Settled(task, ok)))

SetupRemoveOldDone(task, ok) ==
    /\ task.pc = "removeOld"
    /\ Become(Rendered(setupRemoveOldDone(Cur, task, ok)), Op("setupRemoveOld", Settled(task, ok)))

SetupDownloadProgress(task, percentage) ==
    /\ task.pc = "download"
    /\ percentage > downloadProgress \/ ~alive(Cur, task)
    /\ Become(Rendered(setupDownloadProgress(Cur, task, percentage)),
              Op("setupProgress", Settled(task, TRUE)))

SetupDownloadDone(task, ok) ==
    /\ task.pc = "download"
    /\ Become(Rendered(setupDownloadDone(Cur, task, ok)), Op("setupDownload", Settled(task, ok)))

SetupPrepareDone(task, ok) ==
    /\ task.pc = "prepare"
    /\ Become(Rendered(setupPrepareDone(Cur, task, ok)), Op("setupPrepare", Settled(task, ok)))

Next ==
    \/ Mount(MaxConvs)
    \/ Unmount
    \/ \E inputText \in Inputs : HandleSend(inputText, MaxSends)
    \/ \E task \in streams, delta \in Deltas : StreamDelta(task, delta)
    \/ \E task \in streams : StreamEnd(task)
    \/ \E task \in streams : StreamFail(task)
    \/ \E i \in 1..Len(timers) : FlushTimer(i)
    \/ \E task \in migrations, outcome \in TitleOutcomes : MigrateFinish(task, outcome)
    \/ NewConversation(MaxConvs)
    \/ \E c \in ids(conversations) : SelectConversation(c)
    \/ \E c \in ids(conversations) : DeleteConversation(c)
    \/ SetupModel(ModelId, MaxSetups)
    \/ \E task \in setups, ok \in BOOLEAN : SetupDownloadDone(task, ok)
    \/ \E task \in setups, ok \in BOOLEAN : SetupPrepareDone(task, ok)
    \/ \E task \in checks, outcome \in CheckOutcomes : CheckIsDownloadedDone(task, outcome)
    \/ \E task \in checks, ok \in BOOLEAN : CheckPrepareDone(task, ok)

\* The chat session: conversations, messages, streaming, migration
Spec == Init /\ [][Next]_vars

\* The conversations and the model of a session, and the removal of the model
NextRemoval ==
    \/ Mount(MaxConvs)
    \/ Unmount
    \/ \E task \in migrations, outcome \in TitleOutcomes : MigrateFinish(task, outcome)
    \/ NewConversation(MaxConvs)
    \/ \E c \in ids(conversations) : SelectConversation(c)
    \/ \E c \in ids(conversations) : DeleteConversation(c)
    \/ SetupModel(ModelId, MaxSetups)
    \/ \E task \in setups, ok \in BOOLEAN : SetupDownloadDone(task, ok)
    \/ \E task \in setups, ok \in BOOLEAN : SetupPrepareDone(task, ok)
    \/ \E task \in checks, outcome \in CheckOutcomes : CheckIsDownloadedDone(task, outcome)
    \/ \E task \in checks, ok \in BOOLEAN : CheckPrepareDone(task, ok)
    \/ RemoveModel(MaxRemovals)
    \/ \E task \in removal, ok \in BOOLEAN : RemoveModelUnloadDone(task, ok)
    \/ \E task \in removal, ok \in BOOLEAN : RemoveModelRemoveDone(task, ok)

SpecRemoval == Init /\ [][NextRemoval]_vars

\* The conversation store alone, with one more conversation
NextStore ==
    \/ Mount(MaxStoreConvs)
    \/ Unmount
    \/ \E task \in migrations, outcome \in TitleOutcomes : MigrateFinish(task, outcome)
    \/ NewConversation(MaxStoreConvs)
    \/ \E c \in ids(conversations) : SelectConversation(c)
    \/ \E c \in ids(conversations) : DeleteConversation(c)

SpecStore == Init /\ [][NextStore]_vars

\* The model lifecycle alone, with two models and a swap
InitSetup == InitWith(EmptyStorage, 1)

NextSetup ==
    \/ Mount(MaxConvs)
    \/ Unmount
    \/ \E modelId \in Models : SetupModel(modelId, MaxSwapSetups)
    \/ \E task \in setups, ok \in BOOLEAN : SetupUnloadDone(task, ok)
    \/ \E task \in setups, ok \in BOOLEAN : SetupRemoveOldDone(task, ok)
    \/ \E task \in setups, percentage \in Percentages : SetupDownloadProgress(task, percentage)
    \/ \E task \in setups, ok \in BOOLEAN : SetupDownloadDone(task, ok)
    \/ \E task \in setups, ok \in BOOLEAN : SetupPrepareDone(task, ok)
    \/ \E task \in checks, outcome \in CheckOutcomes : CheckIsDownloadedDone(task, outcome)
    \/ \E task \in checks, ok \in BOOLEAN : CheckPrepareDone(task, ok)

SpecSetup == InitSetup /\ [][NextSetup]_vars

\* The model lifecycle with removals; an earlier run may have saved a selection
InitLifecycle ==
    \E st \in {EmptyStorage, save(EmptyStorage, STORAGE_KEY_SELECTED_MODEL, ModelId)} :
        InitWith(st, 1)

MountOnce == instance = 0 /\ Mount(MaxConvs)

NextLifecycle ==
    \/ MountOnce
    \/ Unmount
    \/ \E modelId \in Models : SetupModel(modelId, MaxSwapSetups)
    \/ \E task \in setups, ok \in BOOLEAN : SetupUnloadDone(task, ok)
    \/ \E task \in setups, ok \in BOOLEAN : SetupRemoveOldDone(task, ok)
    \/ \E task \in setups, ok \in BOOLEAN : SetupDownloadDone(task, ok)
    \/ \E task \in setups, ok \in BOOLEAN : SetupPrepareDone(task, ok)
    \/ \E task \in checks, outcome \in CheckOutcomes : CheckIsDownloadedDone(task, outcome)
    \/ \E task \in checks, ok \in BOOLEAN : CheckPrepareDone(task, ok)
    \/ RemoveModel(MaxSwapRemovals)
    \/ \E modelId \in Models : RemoveModelById(modelId, MaxSwapRemovals)
    \/ \E task \in removal, ok \in BOOLEAN : RemoveModelUnloadDone(task, ok)
    \/ \E task \in removal, ok \in BOOLEAN : RemoveModelRemoveDone(task, ok)
    \/ \E task \in removal, ok \in BOOLEAN : RemoveModelByIdDone(task, ok)

SpecLifecycle == InitLifecycle /\ [][NextLifecycle]_vars

\* A session whose model is swapped for another while the user sends
NextSwap ==
    \/ Mount(MaxConvs)
    \/ \E modelId \in Models : SetupModel(modelId, MaxSwapSetups)
    \/ \E task \in setups, ok \in BOOLEAN : SetupUnloadDone(task, ok)
    \/ \E task \in setups, ok \in BOOLEAN : SetupRemoveOldDone(task, ok)
    \/ \E task \in setups, ok \in BOOLEAN : SetupDownloadDone(task, ok)
    \/ \E task \in setups, ok \in BOOLEAN : SetupPrepareDone(task, ok)
    \/ \E inputText \in Inputs : HandleSend(inputText, MaxSends)
    \/ \E task \in streams, delta \in Deltas : StreamDelta(task, delta)
    \/ \E task \in streams : StreamEnd(task)
    \/ \E task \in streams : StreamFail(task)
    \/ \E i \in 1..Len(timers) : FlushTimer(i)

SpecSwap == InitSetup /\ [][NextSwap]_vars

\* A session of one model in which a second message is sent
NextStream ==
    \/ Mount(MaxConvs)
    \/ Unmount
    \/ SetupModel(ModelId, MaxSetups)
    \/ \E task \in setups, ok \in BOOLEAN : SetupDownloadDone(task, ok)
    \/ \E task \in setups, ok \in BOOLEAN : SetupPrepareDone(task, ok)
    \/ \E task \in checks, outcome \in CheckOutcomes : CheckIsDownloadedDone(task, outcome)
    \/ \E task \in checks, ok \in BOOLEAN : CheckPrepareDone(task, ok)
    \/ \E inputText \in Inputs : HandleSend(inputText, MaxStreamSends)
    \/ \E task \in streams, delta \in Deltas : StreamDelta(task, delta)
    \/ \E task \in streams : StreamEnd(task)
    \/ \E task \in streams : StreamFail(task)
    \/ \E i \in 1..Len(timers) : FlushTimer(i)

SpecStream == InitSetup /\ [][NextStream]_vars

\* Titles for the conversations of an earlier run: two with three stored
\* messages each and one with two, none with a title
StoredConversation(i, n) ==
    [meta |-> [id |-> ConvNames[i], title |-> None, createdAt |-> 0, updatedAt |-> 0,
               lastMessagePreview |-> Some(<<"a">>)],
     messages |-> [k \in 1..n |-> [id |-> 900 + 10 * i + k, text |-> <<"a">>,
                                    isUser |-> k % 2 = 1, includeInContext |-> "true"]]]

InitTitles ==
    LET stored == <<StoredConversation(1, MIN_MESSAGES_FOR_TITLE),
                    StoredConversation(2, MIN_MESSAGES_FOR_TITLE),
                    StoredConversation(3, MIN_MESSAGES_FOR_TITLE - 1)>>
        st0 == save(EmptyStorage, getConversationListKey(ModelId),
                    [i \in 1..Len(stored) |-> stored[i].meta])
        st1 == save(st0, getLastConversationKey(ModelId), ConvNames[1])
        st2 == save(st1, getMessagesKey(ConvNames[1]), stored[1].messages)
        st3 == save(st2, getMessagesKey(ConvNames[2]), stored[2].messages)
        st4 == save(st3, getMessagesKey(ConvNames[3]), stored[3].messages)
    IN InitWith(st4, Len(stored) + 1)

NextTitles ==
    \/ Mount(MaxTitleConvs)
    \/ Unmount
    \/ GenerateMissingTitles(MaxTitleCalls)
    \/ \E task \in titles, outcome \in SummaryResults : GenerateTitleDone(task, outcome)
    \/ NewConversation(MaxTitleConvs)

SpecTitles == InitTitles /\ [][NextTitles]_vars

\* Loading what an earlier run stored: up to MaxLoaded conversations, updated
\* at different times and in any order of the list, and a last-active pointer
\* that is absent, names one of them or names a conversation that is gone
MaxLoaded == 3
LoadedTimes == {-2, -1}
GoneId == "c0"

RECURSIVE saveRecords(_, _)
saveRecords(st, n) ==
    IF n = 0 THEN st
    ELSE saveRecords(save(st, getMessagesKey(ConvNames[n]), StoredConversation(n, 1).messages),
                     n - 1)

LoadedStorages ==
    {LET list == [i \in 1..n |-> [StoredConversation(i, 1).meta EXCEPT !.updatedAt = times[i]]]
         st1 == saveRecords(IF n = 0 THEN EmptyStorage
                            ELSE save(EmptyStorage, getConversationListKey(ModelId), list), n)
     IN IF pointer = null THEN st1 ELSE save(st1, getLastConversationKey(ModelId), pointer)
     : <<n, times, pointer>> \in
         UNION {{<<k, f, q>> : f \in [1..k -> LoadedTimes],
                              q \in {null, GoneId} \cup {ConvNames[i] : i \in 1..k}}
                : k \in 0..MaxLoaded}}

InitLoad == \E st \in LoadedStorages : InitWith(st, MaxLoaded + 1)

NextLoad ==
    \/ Mount(MaxLoaded + 1)
    \/ Unmount
    \/ NewConversation(MaxLoaded + 1)
    \/ \E c \in ids(conversations) : SelectConversation(c)
    \/ \E c \in ids(conversations) : DeleteConversation(c)

SpecLoad == InitLoad /\ [][NextLoad]_vars

\* The selection among stored conversations: the storage an earlier run left
\* with its pointer naming a conversation of the list, then load, create,
\* select, delete and the deleteAllConversations of removeModel
SelectableStorages ==
    {st \in LoadedStorages :
        LET list == loadList(st, getConversationListKey(ModelId))
        IN IF Len(list) = 0 THEN ~has(st, getLastConversationKey(ModelId))
           ELSE loadId(st, getLastConversationKey(ModelId)) \in ids(list)}

InitSelection == \E st \in SelectableStorages : InitWith(st, MaxLoaded + 1)

NextSelection ==
    \/ Mount(MaxLoaded + 1)
    \/ Unmount
    \/ NewConversation(MaxLoaded + 1)
    \/ \E c \in ids(conversations) : SelectConversation(c)
    \/ \E c \in ids(conversations) : DeleteConversation(c)
    \/ RemoveModel(MaxRemovals)

SpecSelection == InitSelection /\ [][NextSelection]_vars

\* Messages through storage: a conversation stored by an earlier run is
\* loaded, flushed and loaded again
InitRoundTrip ==
    \E record \in StoredRecords :
        LET meta == [id |-> ConvNames[1], title |-> None, createdAt |-> 0, updatedAt |-> 0,
                     lastMessagePreview |-> sliceOrNull(record[Len(record)].text, PREVIEW_LEN)]
            st1 == save(EmptyStorage, getConversationListKey(ModelId), <<meta>>)
            st2 == save(st1, getLastConversationKey(ModelId), meta.id)
            st3 == save(st2, getMessagesKey(meta.id), record)
        IN InitWith(st3, 2)

NextRoundTrip ==
    \/ Mount(MaxStoreConvs)
    \/ Unmount
    \/ NewConversation(MaxStoreConvs)
    \/ \E c \in ids(conversations) : SelectConversation(c)

SpecRoundTrip == InitRoundTrip /\ [][NextRoundTrip]_vars

\* Results that arrive after the model was removed: one stored conversation
\* without a title, a title call, a stream and a flush timer in flight
MaxLateCalls == 1

InitLate ==
    LET stored == StoredConversation(1, MIN_MESSAGES_FOR_TITLE)
        st0 == save(EmptyStorage, getConversationListKey(ModelId), <<stored.meta>>)
        st1 == save(st0, getLastConversationKey(ModelId), stored.meta.id)
    IN InitWith(save(st1, getMessagesKey(stored.meta.id), stored.messages), 2)

NextLate ==
    \/ Mount(MaxConvs)
    \/ Unmount
    \/ SetupModel(ModelId, MaxSetups)
    \/ \E task \in setups, ok \in BOOLEAN : SetupDownloadDone(task, ok)
    \/ \E task \in setups, ok \in BOOLEAN : SetupPrepareDone(task, ok)
    \/ \E task \in checks, outcome \in CheckOutcomes : CheckIsDownloadedDone(task, outcome)
    \/ \E task \in checks, ok \in BOOLEAN : CheckPrepareDone(task, ok)
    \/ \E inputText \in Inputs : HandleSend(inputText, MaxSends)
    \/ \E task \in streams, delta \in Deltas : StreamDelta(task, delta)
    \/ \E task \in streams : StreamEnd(task)
    \/ \E task \in streams : StreamFail(task)
    \/ \E i \in 1..Len(timers) : FlushTimer(i)
    \/ GenerateMissingTitles(MaxLateCalls)
    \/ \E task \in titles, outcome \in TitleOutcomes : GenerateTitleDone(task, outcome)
    \/ RemoveModel(MaxRemovals)
    \/ \E task \in removal, ok \in BOOLEAN : RemoveModelUnloadDone(task, ok)
    \/ \E task \in removal, ok \in BOOLEAN : RemoveModelRemoveDone(task, ok)

SpecLate == InitLate /\ [][NextLate]_vars

\* ------------------------------------------------------------- claims
storedList == loadList(storage, getConversationListKey(ModelId))

\* the persisted records of the conversation layout: lists, pointers, messages
ConvRecords ==
    LET keys == {k \in DOMAIN storage : k[1] \in {"conversations", "last_conversation", "messages"}}
    IN [k \in keys |-> storage[k]]

\* the record holds every legacy message with its text
HoldsLegacy(record) ==
    \A i \in 1..Len(LegacyMessages) :
        \E j \in 1..Len(record) :
            /\ record[j].id = LegacyMessages[i].id
            /\ record[j].text = LegacyMessages[i].text
            /\ record[j].isUser = LegacyMessages[i].isUser

LegacyPresent ==
    \/ has(storage, legacyKey(ModelId)) /\ storage[legacyKey(ModelId)] = LegacyMessages
    \/ \E c \in migratedIds :
          has(storage, getMessagesKey(c)) /\ HoldsLegacy(storage[getMessagesKey(c)])

\* C1: when migrateLegacyData has returned true the legacy key is absent, the
\* persisted list has exactly one entry, the new conversation, and its message
\* record is the legacy sequence unchanged; and from then on a call of
\* migrateLegacyData returns false at once and changes nothing.
C1_MigrationIdempotent ==
    /\ last.op = "migrateLegacyData" =>
          /\ ~has(storage, legacyKey(ModelId))
          /\ Len(storedList) = 1
          /\ storedList[1].id = last.arg
          /\ has(storage, getMessagesKey(last.arg))
          /\ storage[getMessagesKey(last.arg)] = LegacyMessages
    /\ migratedIds # {} =>
          /\ ~migrateLegacyDataBegin(Cur).suspended
          /\ migrateLegacyDataBegin(Cur).s = Cur

\* a second instance has mounted, and so called migrateLegacyData again,
\* after a migration had returned true
C1_Witness == migratedIds # {} /\ last.op = "mount" /\ instance = 2

\* C2: from the start of a migration on, the legacy messages are in storage
\* under the legacy key or under the message key of a migrated conversation,
\* as long as the user has not deleted that conversation.
C2_LegacyNeverLost ==
    (migrations # {} \/ migratedIds # {}) /\ migratedIds \cap userDeleted = {}
        => LegacyPresent

\* a migration whose title generation failed has finished after the unmount
C2_Witness ==
    /\ last.op = "migrateLegacyData"
    /\ ~isMountedRef
    /\ storedList[1].title = Some(DEFAULT_TITLE)
    /\ LegacyPresent

\* C3: while a migration is suspended on the title, no other operation
\* changes the conversation records; and when it has returned true the
\* persisted list is the migrated conversation alone.
C3_MigrationExclusive ==
    /\ [][migrations # {} /\ last'.op # "migrateLegacyData" => ConvRecords' = ConvRecords]_vars
    /\ [](last.op = "migrateLegacyData" => ids(storedList) = {last.arg})

\* C5: an instance has at most one stream in flight; and a send made while
\* a stream has not finished, or with text that is empty after trimming, or
\* without a ready model reference, appends no message, starts no stream and
\* leaves isLoading as it was.
C5_OneStreamInFlight ==
    /\ [](\A i \in 0..instance : Cardinality({t \in streams : t.inst = i}) <= 1)
    /\ [][last'.op = "handleSend" /\ sendRejected(Cur, last'.arg)
            => /\ \A j \in 1..Len(messages') : \E k \in 1..Len(messages) : messages'[j] = messages[k]
               /\ streams' = streams
               /\ nextMsg' = nextMsg
               /\ isLoading' = isLoading]_vars

\* a send with text has been made while the stream of the earlier send was
\* delivering
C5_Witness ==
    /\ last.op = "handleSend"
    /\ trim(last.arg) # <<>>
    /\ \E t \in streams : t.inst = instance /\ t.deltas > 0
    /\ isLoading

\* C6: when a user with no conversations sends a message on a ready model,
\* one conversation exists and is active, the user message and the assistant
\* placeholder are in the transcript, the placeholder's text is the
\* concatenation of the deltas streamed so far, and once the stream has
\* completed and the flush has run the conversation's lastMessagePreview is
\* the final assistant text cut to 100 characters.
C6_FirstSendEndToEnd ==
    firstSend # None =>
        LET f == firstSend[1]
        IN /\ Len(conversations) = 1
           /\ conversations[1].id = f.conversationId
           /\ activeConversationId = f.conversationId
           /\ \E j \in 1..Len(messages) :
                 /\ messages[j].id = f.userMessageId
                 /\ messages[j].isUser
                 /\ messages[j].text = f.userText
           /\ \E j \in 1..Len(messages) :
                 /\ messages[j].id = f.aiMessageId
                 /\ ~messages[j].isUser
                 /\ messages[j].text = f.fullText
           /\ f.done /\ timers = <<>> =>
                 conversations[1].lastMessagePreview = sliceOrNull(f.fullText, PREVIEW_LEN)

\* C8: when the active conversation has been deleted and others remain, the
\* active conversation is a survivor whose updatedAt no survivor exceeds and
\* the last-active pointer holds its id; when none remains, the active
\* conversation is null and there is no pointer record.
C8_DeleteActiveResolves ==
    last.op = "deleteConversation" /\ last.arg = last.was =>
        IF conversations = <<>>
        THEN /\ activeConversationId = null
             /\ ~has(storage, getLastConversationKey(ModelId))
        ELSE /\ \E i \in 1..Len(conversations) :
                   /\ conversations[i].id = activeConversationId
                   /\ \A j \in 1..Len(conversations) :
                         conversations[j].updatedAt <= conversations[i].updatedAt
             /\ has(storage, getLastConversationKey(ModelId))
             /\ storage[getLastConversationKey(ModelId)] = activeConversationId

\* the active conversation has been deleted, and the survivor that became
\* active is not the first of the list, which was updated earlier
C8_Witness ==
    /\ last.op = "deleteConversation"
    /\ last.arg = last.was
    /\ Len(conversations) = 2
    /\ conversations[2].id = activeConversationId
    /\ conversations[1].updatedAt < conversations[2].updatedAt

\* C9: when deleteConversation(c) and the effects it triggers have run, the
\* persisted list has no entry with id c and storage has no record under
\* the message key of c.
C9_DeleteLeavesNoRecord ==
    last.op = "deleteConversation" =>
        /\ last.arg \notin ids(storedList)
        /\ ~has(storage, getMessagesKey(last.arg))

\* no record of the conversation layout is left for the model
NoConversationRecords == DOMAIN ConvRecords = {}

\* C10: when removeModel of the chat session has run, storage holds no
\* conversation list, no last-active pointer and no message record of the
\* model, and the message list is empty.
C10_RemoveModelCascades ==
    last.op = "removeModel" => NoConversationRecords /\ messages = <<>>

\* the lifecycle state and the capability calls issued
Lifecycle ==
    <<modelStatus, modelRef, selectedModelId, downloadProgress, isSetupInProgressRef,
      setups, calls, storage>>

core(list) ==
    [i \in 1..Len(list) |-> [id |-> list[i].id, text |-> list[i].text, isUser |-> list[i].isUser]]

\* C7: a flush of a non-empty buffer writes its messages in the reverse of
\* the buffer's order; a load makes the buffer the reverse of the stored
\* record; and the buffer loaded after a flush has the ids, texts and isUser
\* flags of the buffer that was flushed, in the same order.
C7_MessagesRoundTrip ==
    /\ [][/\ last'.op \in {"unmount", "createConversation"}
          /\ msgRef # <<>>
          /\ activeConversationId # null
          => /\ has(storage', getMessagesKey(activeConversationId))
             /\ core(storage'[getMessagesKey(activeConversationId)]) = reverse(core(msgRef))]_vars
    /\ [][/\ last'.op \in {"mount", "selectConversation"}
          /\ activeConversationId' # null
          /\ has(storage', getMessagesKey(activeConversationId'))
          => core(messages') = reverse(core(storage'[getMessagesKey(activeConversationId')]))]_vars
    /\ [][/\ last.op \in {"unmount", "createConversation"}
          /\ last.arg # <<>>
          /\ last.was # null
          /\ last'.op \in {"mount", "selectConversation"}
          /\ activeConversationId' = last.was
          => core(messages') = core(last.arg)]_vars

\* a buffer of two different messages has been flushed by saveMessages and
\* loaded again
C7_Witness ==
    /\ last.op = "selectConversation"
    /\ Len(messages) = 2
    /\ messages[1].text # messages[2].text
    /\ messages[1].includeInContext = "false"
    /\ storage[getMessagesKey(activeConversationId)] = reverse(messages)

\* the edges of the status diagram other than those into not_setup
StatusEdges ==
    {<<"not_setup", "downloading">>, <<"downloading", "preparing">>, <<"preparing", "ready">>}

\* C11: a step of the mounted lifecycle that changes the model status takes
\* it from not_setup to downloading, from downloading to preparing, from
\* preparing to ready, or from any status to not_setup.
C11_StatusEdges ==
    [][/\ last'.op \notin {"mount", "unmount"}
       /\ modelStatus' # modelStatus
       => \/ <<modelStatus, modelStatus'>> \in StatusEdges
          \/ modelStatus' = "not_setup"]_vars

\* the persisted selected-model record, null when there is none
persistedSelection(st) ==
    IF has(st, STORAGE_KEY_SELECTED_MODEL) THEN st[STORAGE_KEY_SELECTED_MODEL] ELSE null

\* no setupModel and no removal has issued a capability call
OnlyCheckRan == calls.download = 0 /\ calls.remove = 0 /\ calls.unload = 0

\* C12: when prepare succeeds for a mounted checkModelExists(m), the status
\* is ready and m is the loaded, the selected and the persisted model; when
\* isDownloaded or prepare fails, and only checkModelExists has run since
\* the mount, status, selected model, model reference and persisted
\* selection are what they were when checkModelExists was called.
C12_CheckModelExists ==
    /\ [][/\ last'.op = "checkPrepare"
          /\ last'.arg.outcome
          /\ alive(Cur, last'.arg.task)
          => /\ modelStatus' = "ready"
             /\ modelRef' = last'.arg.task.modelId
             /\ selectedModelId' = last'.arg.task.modelId
             /\ persistedSelection(storage') = last'.arg.task.modelId]_vars
    /\ [][/\ \/ last'.op = "checkIsDownloaded" /\ last'.arg.outcome = "error"
             \/ last'.op = "checkPrepare" /\ ~last'.arg.outcome
          /\ alive(Cur, last'.arg.task)
          /\ OnlyCheckRan
          => /\ modelStatus' = "not_setup"
             /\ modelRef' = null
             /\ selectedModelId' = null
             /\ persistedSelection(storage') = last'.arg.task.modelId]_vars

\* the step that has just been taken is a failed download or prepare of setupModel
SetupFailed(l) == l.op \in {"setupDownload", "setupPrepare"} /\ ~l.arg.outcome

\* C13: when download or prepare of a mounted setupModel call fails, the
\* status is not_setup, the progress is 0 and no setup is in progress, so
\* that setupModel is not ignored for any model; and a setupModel call made
\* next starts a setup of the model asked for.
C13_SetupFailureResets ==
    /\ [][SetupFailed(last') /\ alive(Cur, last'.arg.task)
          => /\ modelStatus' = "not_setup"
             /\ downloadProgress' = 0
             /\ ~isSetupInProgressRef'
             /\ \A m \in Models : ~setupIgnored(Cur', m)]_vars
    /\ [][/\ SetupFailed(last)
          /\ alive(Cur, last.arg.task)
          /\ last'.op = "setupModel"
          => \E t \in setups' : t.inst = instance /\ t.modelId = last'.arg]_vars

\* a setup of the first instance failed while mounted, and the setupModel
\* call made after it is downloading
C13_Witness ==
    /\ last.op = "setupModel"
    /\ instance = 1
    /\ calls.download = 2
    /\ selectedModelId = null
    /\ modelStatus = "downloading"
    /\ \E t \in setups : t.inst = instance /\ t.pc = "download" /\ t.modelId = last.arg

\* C14: whenever the status of the mounted lifecycle is ready, a model is
\* loaded, it is the selected model, and the persisted selection is the
\* selected model id.
C14_ReadyHoldsModel ==
    isMountedRef /\ modelStatus = "ready" =>
        /\ modelRef # null
        /\ selectedModelId # null
        /\ modelRef = selectedModelId
        /\ persistedSelection(storage) = selectedModelId

\* a setupModel call of the mounted instance for a model other than the
\* selected one has begun and the new model is not ready yet
SwapInProgress ==
    \E t \in setups : /\ alive(Cur, t)
                      /\ t.oldModelId # null
                      /\ t.modelId # t.oldModelId

\* C15: a send made while a swap is in progress starts no stream.
C15_NoStreamDuringSwap ==
    [][last'.op = "handleSend" /\ SwapInProgress => streams' = streams]_vars

\* C16: when model.remove() of a mounted removeModel call has settled,
\* resolved or rejected, the status is not_setup, the progress is 0, no
\* model is selected and there is no persisted selection.
C16_RemoveModelResets ==
    [][last'.op = "removeModelDone" /\ alive(Cur, last'.arg.task)
       => /\ modelStatus' = "not_setup"
          /\ downloadProgress' = 0
          /\ selectedModelId' = null
          /\ persistedSelection(storage') = null]_vars

\* status, progress, selected model, model reference, persisted selection
LifecycleState(s) ==
    <<s.modelStatus, s.downloadProgress, s.selectedModelId, s.modelRef,
      persistedSelection(s.storage)>>

\* C17: removeModelById(m) starts the full removal only when m is selected
\* and the status is ready; otherwise the call issues one remove and, as it
\* starts and when that remove settles, leaves status, progress, selected
\* model, model reference and persisted selection unchanged.
C17_RemoveByIdFrame ==
    /\ [][last'.op = "removeModelById"
          => IF last'.arg = selectedModelId /\ modelStatus = "ready"
             THEN \E t \in removal' : t.pc \in {"unload", "remove"}
             ELSE /\ calls' = [calls EXCEPT !.remove = @ + 1]
                  /\ \E t \in removal' : t.pc = "removeById" /\ t.modelId = last'.arg
                  /\ LifecycleState(Cur') = LifecycleState(Cur)]_vars
    /\ [][last'.op = "removeModelByIdDone" => LifecycleState(Cur') = LifecycleState(Cur)]_vars

\* the steps in which a result of setupModel or checkModelExists arrives
LifecycleResults ==
    {"setupUnload", "setupRemoveOld", "setupProgress", "setupDownload", "setupPrepare",
     "checkIsDownloaded", "checkPrepare"}

\* C18: a result of setupModel or checkModelExists that arrives when the
\* instance that made the call has been unmounted leaves status, progress,
\* selected model, model reference and persisted selection unchanged.
C18_NoLateLifecycleResult ==
    [][last'.op \in LifecycleResults /\ ~alive(Cur, last'.arg.task)
       => LifecycleState(Cur') = LifecycleState(Cur)]_vars

\* the step taken is an event (delta, end, failure) of stream task t
StreamEventOf(t, l) ==
    \/ l.op = "streamDelta" /\ l.arg[1] = t.aiMessageId
    \/ l.op \in {"streamEnd", "streamFail"} /\ l.arg = t.aiMessageId

C20_AbortCancels ==
    /\ [][last'.op = "unmount" /\ (\A t \in streams : ~t.controller)
          => streams' = streams]_vars
    /\ [][last'.op = "streamDelta"
          => ~\E t \in streams : t.aborted /\ t.aiMessageId = last'.arg[1]]_vars
    /\ [][(\E t \in streams : t.aborted /\ StreamEventOf(t, last'))
          => messages' = messages /\ msgRef' = msgRef]_vars

\* the stream task whose failure is the step l, taken while it is mounted
\* and not aborted
FailedStream(s, l) ==
    {t \in s.streams : l.op = "streamFail" /\ l.arg = t.aiMessageId /\ alive(s, t) /\ ~t.aborted}

\* C21: when the stream of a mounted session fails without having been
\* aborted, the placeholder holds the error message, every other message is
\* as before, the streaming flag is false and no send with text is
\* rejected; and the send made next starts a stream.
C21_StreamFailureRecovers ==
    /\ [][\A t \in FailedStream(Cur, last') :
             /\ Len(messages') = Len(messages)
             /\ \A i \in 1..Len(messages) :
                   messages'[i] = IF messages[i].id = t.aiMessageId
                                  THEN [messages[i] EXCEPT !.text = ERROR_MESSAGE]
                                  ELSE messages[i]
             /\ \E i \in 1..Len(messages') : messages'[i].id = t.aiMessageId
             /\ ~isLoading'
             /\ \A text \in Inputs : trim(text) # <<>> => ~sendRejected(Cur', text)]_vars
    /\ [][/\ last.op = "streamFail"
          /\ ~isLoading
          /\ modelStatus = "ready"
          /\ modelRef # null
          /\ last'.op = "handleSend"
          /\ trim(last'.arg) # <<>>
          => \E t \in streams' \ streams : t.inst = instance]_vars

\* C22: an unmount aborts every stream of the mounted instance, and when
\* the buffer is not empty and a conversation is active, the record under
\* its message key holds afterwards the buffer's messages in reverse order.
C22_TeardownFlushes ==
    [][last'.op = "unmount"
       => /\ \A t \in streams : alive(Cur, t) =>
                \E u \in streams' : u.aiMessageId = t.aiMessageId /\ u.aborted
          /\ msgRef # <<>> /\ activeConversationId # null =>
                /\ has(storage', getMessagesKey(activeConversationId))
                /\ core(storage'[getMessagesKey(activeConversationId)]) = reverse(core(msgRef))]_vars

\* the screen was unmounted while a reply was streaming: the stream is
\* aborted and the record holds the user message and the partial reply
C22_Witness ==
    /\ last.op = "unmount"
    /\ \E t \in streams :
          /\ t.aborted
          /\ t.fullText # <<>>
          /\ \E c \in ids(storedList) :
                /\ has(storage, getMessagesKey(c))
                /\ Len(storage[getMessagesKey(c)]) = 2
                /\ \E i \in 1..2 : /\ storage[getMessagesKey(c)][i].id = t.aiMessageId
                                   /\ storage[getMessagesKey(c)][i].text = t.fullText

\* the record under a key, null when there is none
recordAt(st, key) == IF has(st, key) THEN st[key] ELSE null

\* C23: when selectConversation or handleNewConversation moves the active
\* conversation from A to B, a non-empty buffer is afterwards the record
\* under A's message key, in reverse order; the message list is the reverse
\* of the record under B's key, or empty when there is none; and the record
\* under B's key is what it was before a selectConversation and the empty
\* record of the new conversation after a handleNewConversation.
C23_SwitchPersistsAndLoads ==
    [][/\ last'.op \in {"selectConversation", "createConversation"}
       /\ activeConversationId # null
       /\ activeConversationId' # activeConversationId
       => LET keyA == getMessagesKey(activeConversationId)
              keyB == getMessagesKey(activeConversationId')
          IN /\ msgRef # <<>> =>
                   /\ has(storage', keyA)
                   /\ core(storage'[keyA]) = reverse(core(msgRef))
             /\ IF has(storage', keyB)
                THEN core(messages') = reverse(core(storage'[keyB]))
                ELSE messages' = <<>>
             /\ last'.op = "selectConversation" => recordAt(storage', keyB) = recordAt(storage, keyB)
             /\ last'.op = "createConversation" => recordAt(storage', keyB) = <<>>]_vars

\* a conversation with messages has been left for one with other stored
\* messages: the record of the one is not empty, the list shows the
\* messages of the other
C23_Witness ==
    /\ last.op = "selectConversation"
    /\ last.was # null
    /\ messages # <<>>
    /\ has(storage, getMessagesKey(last.was))
    /\ storage[getMessagesKey(last.was)] # <<>>
    /\ core(storage[getMessagesKey(last.was)]) # reverse(core(messages))

\* C24: no two title-generation calls are in flight for one conversation id.
C24_OneTitleCallPerConversation ==
    \A a, b \in titles : a.conversationId = b.conversationId => a = b

\* the title of conversation id in a list, None when it has none
titleIn(list, id) ==
    IF \E i \in 1..Len(list) : list[i].id = id
    THEN (CHOOSE c \in {list[i] : i \in 1..Len(list)} : c.id = id).title
    ELSE None

\* C25: a title call started by the mounted instance is for a conversation
\* that has no title, has at least three stored messages and has no other
\* call of the instance in flight; and when a title call of the mounted
\* instance settles, every title in the list has at most 50 characters and
\* every conversation that had a title has the same title.
C25_TitlesOnlyWhereMissing ==
    /\ [][\A x \in titles' \ titles :
             alive(Cur', x) =>
                /\ titleIn(conversations', x.conversationId) = None
                /\ Len(loadList(storage', getMessagesKey(x.conversationId)))
                      >= MIN_MESSAGES_FOR_TITLE
                /\ \A y \in titles' :
                      y.inst = x.inst /\ y.conversationId = x.conversationId => y = x]_vars
    /\ [][last'.op = "generateTitle" /\ alive(Cur, last'.arg.task)
          => \A i \in 1..Len(conversations') :
                LET c == conversations'[i]
                IN /\ c.title # None => Len(c.title[1]) <= TITLE_LEN
                   /\ titleIn(conversations, c.id) # None
                         => c.title = titleIn(conversations, c.id)]_vars

\* the ids a generateMissingTitles call of the mounted instance would take up
retryList(s) ==
    conversationsWithoutTitle(s.conversationsRef, isGeneratingTitleRef(s, s.instance))

\* C26: when promptAI fails in a title call, the conversation list and the
\* store are as before, the call and its id have left the in-flight set, and
\* a conversation of the mounted instance that has no title is in the list a
\* generateMissingTitles call made next works through, with its three or
\* more stored messages.
C26_TitleFailureRetries ==
    [][last'.op = "generateTitle" /\ last'.arg.outcome = None
       => LET task == last'.arg.task
              id   == task.conversationId
          IN /\ conversations' = conversations
             /\ storage' = storage
             /\ task \notin titles'
             /\ id \notin isGeneratingTitleRef(Cur', task.inst)
             /\ alive(Cur, task) /\ titleIn(conversations, id) = None
                   /\ (\E i \in 1..Len(conversations) : conversations[i].id = id)
                => /\ \E i \in 1..Len(retryList(Cur')) : retryList(Cur')[i] = id
                   /\ Len(loadList(storage', getMessagesKey(id)))
                         >= MIN_MESSAGES_FOR_TITLE]_vars

\* a title call of the mounted instance has failed, and its conversation has
\* no title
C26_Witness ==
    /\ last.op = "generateTitle" /\ last.arg.outcome = None
    /\ last.arg.task.inst = instance /\ isMountedRef
    /\ titleIn(conversations, last.arg.task.conversationId) = None
    /\ \E i \in 1..Len(conversations) : conversations[i].id = last.arg.task.conversationId

\* C27: a step in which a migration resumes with a failed or empty title
\* generation completes it: the persisted list is the one new conversation
\* with the title "Chat 1", its message record is the legacy messages, the
\* last-active pointer names it, the legacy record is gone, and the call has
\* returned true.
C27_MigrationDefaultTitle ==
    [][\A task \in migrations : \A outcome \in {None, Some(<<>>)} :
          MigrateFinish(task, outcome)
          => LET id == task.conversationId
             IN /\ Len(storedList') = 1
                /\ storedList'[1].id = id
                /\ storedList'[1].title = Some(DEFAULT_TITLE)
                /\ has(storage', getMessagesKey(id))
                /\ storage'[getMessagesKey(id)] = task.legacyMessages
                /\ has(storage', getLastConversationKey(ModelId))
                /\ storage'[getLastConversationKey(ModelId)] = id
                /\ ~has(storage', legacyKey(ModelId))
                /\ task \notin migrations'
                /\ id \in migratedIds']_vars

\* a migration of the mounted instance has completed with the default title
C27_Witness ==
    /\ last.op = "migrateLegacyData"
    /\ isMountedRef
    /\ Len(conversations) = 1
    /\ conversations[1].id = last.arg
    /\ conversations[1].title = Some(DEFAULT_TITLE)
    /\ ~has(storage, legacyKey(ModelId))

\* C28: the migrateLegacyData of a mount that finds no legacy messages, or
\* finds a conversation-list record, starts no migration and leaves the store
\* as it is; and no migration writes the legacy messages into a new
\* conversation in a state where a conversation-list record exists.
C28_MigrationFailsClosed ==
    /\ [][last'.op = "mount"
            /\ (\/ Len(loadList(storage, legacyKey(ModelId))) = 0
                \/ has(storage, getConversationListKey(ModelId)))
          => migrations' = migrations /\ storage' = storage]_vars
    /\ [][last'.op = "migrateLegacyData"
          => ~has(storage, getConversationListKey(ModelId))]_vars

\* the operations that write the conversation list: createConversation (also
\* from a first send), deleteConversation, updateConversationMeta (from a
\* flush or a generated title) and migrateLegacyData
ListWriters ==
    {"createConversation", "handleSend", "deleteConversation", "flushTimer",
     "generateTitle", "migrateLegacyData"}

\* C29: when an operation that writes the conversation list has changed the
\* persisted or the in-memory list, the persisted list is the in-memory list
\* of the mounted screen, entry by entry.
C29_StoredListIsMemoryList ==
    [][/\ last'.op \in ListWriters
       /\ isMountedRef'
       /\ (storedList' # storedList \/ conversations' # conversations)
       => storedList' = conversations']_vars

\* what createConversation can be given as initialTitle: nothing, the empty
\* string, a text
InitialTitles == {None, Some(<<>>), Some(<<"n", "e", "w">>)}

\* the list, the records and the selection after createConversation has run
\* in state pre and the screen has rendered
Created(pre, id) ==
    /\ id \notin ids(pre.conversations)
    /\ ~has(pre.storage, getMessagesKey(id))
    /\ Len(conversations') = Len(pre.conversations) + 1
    /\ conversations'[1].id = id
    /\ conversations'[1].title = None
    /\ conversations'[1].lastMessagePreview = None
    /\ Tail(conversations') = pre.conversations
    /\ storedList' = conversations'
    /\ has(storage', getMessagesKey(id))
    /\ storage'[getMessagesKey(id)] = <<>>
    /\ activeConversationId' = id
    /\ has(storage', getLastConversationKey(ModelId))
    /\ storage'[getLastConversationKey(ModelId)] = id

\* C30: createConversation, called after the flush of handleNewConversation
\* or by the send that finds no active conversation, puts a new entry with a
\* fresh id, no preview and no title before the existing entries, which stay
\* as they are and in their order, writes an empty message record for the
\* id, and makes the id the active conversation and the persisted pointer;
\* given a title, the entry's title is that title, or null when it is empty.
C30_CreateConversation ==
    /\ [][last'.op = "createConversation"
          => LET pre == saveMessages(IF clock' = clock THEN Cur ELSE Later(Cur))
             IN /\ Created(pre, activeConversationId')
                /\ \A initialTitle \in InitialTitles :
                      LET made == createConversation(pre, initialTitle)
                      IN /\ made.conversations[1].title =
                               (IF initialTitle = Some(<<>>) THEN None ELSE initialTitle)
                         /\ Tail(made.conversations) = pre.conversations]_vars
    /\ [][last'.op = "handleSend" /\ activeConversationId = null
             /\ activeConversationId' # null
          => Created(IF clock' = clock THEN Cur ELSE Later(Cur), activeConversationId')]_vars

\* a third conversation has been created while the second was active
C30_Witness ==
    /\ last.op = "createConversation"
    /\ last.was # null
    /\ Len(conversations) = 3
    /\ conversations[1].id = activeConversationId
    /\ storedList = conversations

\* C31: in a state where no setupModel call and no checkModelExists call is
\* in flight, the model status is ready or not_setup.
C31_StatusRests ==
    setups = {} /\ checks = {} => modelStatus \in {"ready", "not_setup"}

\* setupModel(modelId) is accepted in state s and takes the swap branch
swaps(s, modelId) ==
    ~setupIgnored(s, modelId) /\ modelId # s.selectedModelId /\ s.selectedModelId # null

\* C32: a setupModel call for another model than the selected one first
\* attempts the unload, when a model is loaded, and invokes neither remove nor
\* download in that step; the download is invoked only in the step in which
\* the remove of the old model has settled; and while the screen is mounted a
\* failed unload or remove is followed at once by the download.
C32_SwapRemovesFirst ==
    /\ [][last'.op = "setupModel" /\ swaps(Cur, last'.arg)
          => /\ calls'.download = calls.download
             /\ IF modelRef # null
                THEN calls'.unload = calls.unload + 1 /\ calls'.remove = calls.remove
                ELSE calls'.remove = calls.remove + 1]_vars
    /\ [][last'.op \in {"setupUnload", "setupRemoveOld"}
             /\ calls'.download # calls.download
          => last'.op = "setupRemoveOld"]_vars
    /\ [][last'.op \in {"setupUnload", "setupRemoveOld"}
             /\ ~last'.arg.outcome /\ alive(Cur, last'.arg.task)
          => calls'.download = calls.download + 1]_vars

\* the entries of list that no entry exceeds in updatedAt
newest(list) ==
    {list[i].id : i \in {j \in 1..Len(list) :
                            \A k \in 1..Len(list) : list[k].updatedAt <= list[j].updatedAt}}

\* C33: a mount that loads the stored list makes it the conversation list
\* and makes active the conversation the stored pointer names when the list
\* has it, else a conversation of the list with the greatest updatedAt, and
\* none when the list is empty.
C33_LoadResolvesActive ==
    [][last'.op = "mount" /\ ~migrateLegacyDataBegin(Cur).suspended
       => LET list == storedList
              lastId == loadId(storage, getLastConversationKey(ModelId))
          IN /\ conversations' = list
             /\ IF lastId \in ids(list) THEN activeConversationId' = lastId
                ELSE IF Len(list) > 0 THEN activeConversationId' \in newest(list)
                ELSE activeConversationId' = null]_vars

\* the pointer named a conversation that is gone, and of the conversations
\* loaded the one updated last, which is not the first of the list, is active
C33_Witness ==
    /\ last.op = "mount"
    /\ Len(conversations) >= 2
    /\ activeConversationId # null
    /\ activeConversationId # conversations[1].id
    /\ activeConversationId \in newest(conversations)
    /\ conversations[1].id \notin newest(conversations)
    /\ loadId(storage, getLastConversationKey(ModelId)) = GoneId

\* C34: on a mounted screen isSetupInProgressRef is set exactly while a
\* setupModel call of the instance is in flight; and a call whose download or
\* prepare has failed, whose prepare has succeeded, or that finds the screen
\* torn down after the swap or the download, is in flight no longer.
C34_FlagWhileSetupRuns ==
    /\ isMountedRef => (isSetupInProgressRef <=> \E x \in setups : x.inst = instance)
    /\ last.op \in {"setupUnload", "setupRemoveOld", "setupDownload", "setupPrepare"}
       => LET task == last.arg.task
              tornDown == ~(task.inst = instance /\ isMountedRef)
          IN (\/ last.op = "setupPrepare"
              \/ last.op = "setupDownload" /\ (~last.arg.outcome \/ tornDown)
              \/ last.op = "setupRemoveOld" /\ tornDown
              \/ last.op = "setupUnload" /\ ~last.arg.outcome /\ tornDown)
             => \A x \in setups : x.inst # task.inst

\* the download of the mounted instance's call has failed: the flag is
\* clear, and the call had set it
C34_Witness ==
    /\ last.op = "setupDownload"
    /\ ~last.arg.outcome
    /\ last.arg.task.inst = instance
    /\ isMountedRef
    /\ ~isSetupInProgressRef
    /\ calls.download >= 1

\* C35: on a mounted screen isLoading is set exactly while a stream of the
\* instance is in flight; and when the stream of the mounted instance has
\* completed or failed, a send with text on a ready model is accepted.
C35_LoadingWhileStreaming ==
    /\ [](isMountedRef => (isLoading <=> \E t \in streams : t.inst = instance))
    /\ [][last'.op \in {"streamEnd", "streamFail"} /\ isMountedRef'
             /\ (\E t \in streams \ streams' : t.inst = instance)
          => /\ ~isLoading'
             /\ modelStatus' = "ready" /\ modelRef' # null
                   => ~sendRejected(Cur', <<"h", "i">>)]_vars

\* a second send has been accepted after the first stream of the instance
\* had finished
C35_Witness ==
    /\ last.op = "handleSend"
    /\ instance = 1
    /\ isMountedRef
    /\ isLoading
    /\ nextMsg = 5
    /\ Cardinality(streams) = 1

\* the conversations that have a message record in storage
recorded == {k[2] : k \in {x \in DOMAIN storage : x[1] = "messages"}}

\* C36: every message record in storage is the record of a conversation of
\* the persisted conversation list.
C36_NoOrphanRecord == recorded \subseteq ids(storedList)

\* C37: on a mounted screen the active conversation is none or a conversation
\* of the list, and the persisted last-active pointer, when there is one, is
\* the active conversation.
C37_ActiveIsListed ==
    isMountedRef =>
        /\ activeConversationId = null \/ activeConversationId \in ids(conversations)
        /\ has(storage, getLastConversationKey(ModelId))
              => storage[getLastConversationKey(ModelId)] = activeConversationId

\* the active conversation has been deleted and, of the two that are left,
\* the one updated last, which is not the first of the list, is active and is
\* what the pointer names
C37_Witness ==
    /\ last.op = "deleteConversation"
    /\ last.was = last.arg
    /\ isMountedRef
    /\ Len(conversations) = 2
    /\ activeConversationId = conversations[2].id
    /\ conversations[1].id \notin newest(conversations)
    /\ loadId(storage, getLastConversationKey(ModelId)) = activeConversationId

\* C38: every message of a stored message record that a send or an earlier
\* run created is in the record of the conversation it was created in.
C38_MessagesStayInTheirConversation ==
    \A c \in recorded :
        \A i \in 1..Len(storage[getMessagesKey(c)]) :
            LET m == storage[getMessagesKey(c)][i].id
            IN m \in DOMAIN createdIn => createdIn[m] = c

C38_Witness ==
    \E a \in recorded : \E b \in recorded \ {a} :
        /\ \E i \in 1..Len(storage[getMessagesKey(a)]) :
              storage[getMessagesKey(a)][i].id \in DOMAIN createdIn
        /\ Len(storage[getMessagesKey(b)]) > 0
        /\ activeConversationId = b
        /\ last.op = "flushTimer"

\* C39: a stream delta and the error replacement keep the number and the
\* order of the messages and every field of every message but the text of
\* the placeholder of their send; when no message has the placeholder's id
\* the list is unchanged.
onlyText(before, after, id) ==
    /\ Len(after) = Len(before)
    /\ \A i \in 1..Len(before) :
          IF before[i].id = id
          THEN after[i] = [before[i] EXCEPT !.text = after[i].text]
          ELSE after[i] = before[i]

C39_DeltaChangesPlaceholderText ==
    [][/\ last'.op = "streamDelta" => onlyText(messages, messages', last'.arg[1])
       /\ last'.op = "streamFail" => onlyText(messages, messages', last'.arg)]_vars

C39_Witness ==
    /\ last.op = "streamDelta"
    /\ isMountedRef
    /\ Len(messages) > 2
    /\ \E i \in 1..Len(messages) :
          messages[i].id = last.arg[1] /\ messages[i].text = last.arg[2] \o last.arg[2]

\* C40: once removeModel has deleted the conversations of the model, and
\* while the session has none, a settled title call, a stream delta, the end
\* or the failure of a stream and the flush timer add no conversation-list
\* record, no last-active pointer and no message record to the storage; the
\* render of removeModel itself, with the cleanup of the load effect, adds
\* none either.
lateResults == {"generateTitle", "streamDelta", "streamEnd", "streamFail", "flushTimer"}

C40_NoRecordAfterRemoveModel ==
    [][/\ (/\ (removal # {} \/ calls.remove > 0)
           /\ conversations = <<>>
           /\ activeConversationId = null
           /\ last'.op \in lateResults)
          => DOMAIN ConvRecords' \subseteq DOMAIN ConvRecords
       /\ last'.op = "removeModel"
          => DOMAIN ConvRecords' \subseteq DOMAIN ConvRecords]_vars

====
